---- MODULE Spec2Model ----
(***************************************************************************)
(* A model of the open-storage bucket content store (model/files.rs) and   *)
(* of the index quota engine (index lib.rs).  The Rust structs are records *)
(* and the HashMaps are functions with a growing and shrinking domain.     *)
(* Timestamps (File.created, PendingFile.created) carry no behaviour and   *)
(* are left out.                                                           *)
(***************************************************************************)
EXTENDS Integers, Sequences, FiniteSets, TLC

VARIABLES store, index, result, env

vars == <<store, index, result, env>>

-----------------------------------------------------------------------------
(* Bounds of the model and scaled program constants *)

\* bucket lib.rs MAX_BLOB_SIZE_BYTES, scaled down so that a total_size can exceed it
MAX_BLOB_SIZE_BYTES == 4

\* uploads in progress at a time under Spec
MaxPending == 1

\* largest byte_limit given to a user under SpecIndex
MaxByteLimit == 3

\* second deliveries in a behaviour of SpecRedelivery
MaxRedeliveries == 1

\* largest file and largest chunk_size of the upload of SpecUpload
MaxUploadSize == 3
MaxUploadChunk == 3

\* FileAdded records a file id may have produced before its callers stop, under SpecAdded
MaxFileAdded == 2

FileIds == {"f1", "f2"}
UserIds == {"u1", "u2"}
AccessorIds == {"a1", "a2"}
MimeTypes == {"text/plain"}
Byte == {0, 1}

-----------------------------------------------------------------------------
(* Option and HashMap helpers *)

None == << >>

Some(x) == <<x>>

MapPut(m, k, v) == [x \in (DOMAIN m) \cup {k} |-> IF x = k THEN v ELSE m[x]]

MapRemove(m, k) == [x \in (DOMAIN m) \ {k} |-> m[x]]

EmptyMap == [x \in {} |-> 0]

RECURSIVE SumOver(_, _)
SumOver(m, S) ==
    IF S = {} THEN 0
    ELSE LET x == CHOOSE y \in S : TRUE IN m[x] + SumOver(m, S \ {x})

-----------------------------------------------------------------------------
(* utils::hasher::hash_bytes: a collision-free digest of a byte string.    *)
(* The digest of b1..bn is the number written 1 b1 .. bn in base           *)
(* Cardinality(Byte), so strings of different length or content differ.    *)

RECURSIVE hash_bytes(_)
hash_bytes(bytes) ==
    IF bytes = << >> THEN 1
    ELSE hash_bytes(SubSeq(bytes, 1, Len(bytes) - 1)) * Cardinality(Byte)
            + bytes[Len(bytes)]

\* ceil(total_size / chunk_size)
calc_chunk_count(chunk_size, total_size) == ((total_size - 1) \div chunk_size) + 1

-----------------------------------------------------------------------------
(* ReferenceCounts *)

\* faulty incr: or_insert(1) without the and_modify
incr_reset(counts, hash) == MapPut(counts, hash, 1)

incr(counts, hash) ==
    IF hash \in DOMAIN counts
    THEN [counts EXCEPT ![hash] = @ + 1]
    ELSE MapPut(counts, hash, 1)

\* faulty decr: drops the entry whatever the count
decr_to_zero(counts, hash) == [counts |-> MapRemove(counts, hash), left |-> 0]

\* returns the new map and the count left
decr(counts, hash) ==
    IF hash \in DOMAIN counts
    THEN IF counts[hash] > 1
         THEN [counts |-> [counts EXCEPT ![hash] = @ - 1], left |-> counts[hash] - 1]
         ELSE [counts |-> MapRemove(counts, hash), left |-> 0]
    ELSE [counts |-> counts, left |-> 0]

(* AccessorsMap *)

link(map, accessor_id, file_id) ==
    IF accessor_id \in DOMAIN map
    THEN [map EXCEPT ![accessor_id] = @ \cup {file_id}]
    ELSE MapPut(map, accessor_id, {file_id})

\* faulty unlink: leaves the file id in the accessor's entry
unlink_nothing(map, accessor_id, file_id) == map

unlink(map, accessor_id, file_id) ==
    IF accessor_id \in DOMAIN map
    THEN IF map[accessor_id] \ {file_id} = {}
         THEN MapRemove(map, accessor_id)
         ELSE [map EXCEPT ![accessor_id] = @ \ {file_id}]
    ELSE map

RECURSIVE link_all(_, _, _)
link_all(map, accessors, file_id) ==
    IF accessors = {} THEN map
    ELSE LET a == CHOOSE x \in accessors : TRUE
         IN link_all(link(map, a, file_id), accessors \ {a}, file_id)

RECURSIVE unlink_all(_, _, _)
unlink_all(map, accessors, file_id) ==
    IF accessors = {} THEN map
    ELSE LET a == CHOOSE x \in accessors : TRUE
         IN unlink_all(unlink(map, a, file_id), accessors \ {a}, file_id)

-----------------------------------------------------------------------------
(* PendingFile *)

chunk_count(pf) == calc_chunk_count(pf.chunk_size, pf.total_size)

is_completed(pf) == pf.remaining_chunks = {}

\* faulty expected_chunk_size: the last chunk is expected as long as the others
expected_chunk_size_last_full(pf, chunk_index) ==
    IF chunk_index <= chunk_count(pf) - 1 THEN Some(pf.chunk_size) ELSE None

expected_chunk_size(pf, chunk_index) ==
    LET last_index == chunk_count(pf) - 1 IN
    IF chunk_index = last_index
    THEN Some(((pf.total_size - 1) % pf.chunk_size) + 1)
    ELSE IF chunk_index < last_index THEN Some(pf.chunk_size) ELSE None

\* faulty write_bytes: every chunk is copied to the start of the buffer
write_bytes_at_start(buffer, start_index, bytes) ==
    [i \in 1..Len(buffer) |-> IF i <= Len(bytes) THEN bytes[i] ELSE buffer[i]]

\* the byte copy of add_chunk: bytes[start_index + i] = byte
write_bytes(buffer, start_index, bytes) ==
    [i \in 1..Len(buffer) |->
        IF start_index < i /\ i <= start_index + Len(bytes)
        THEN bytes[i - start_index] ELSE buffer[i]]

\* returns the pending file as add_chunk leaves it, and the AddChunkResult;
\* "Trap" is the abort of an out-of-bounds write
add_chunk(pf, chunk_index, bytes) ==
    IF chunk_index \in pf.remaining_chunks
    THEN LET removed == [pf EXCEPT !.remaining_chunks = @ \ {chunk_index}]
             expected == expected_chunk_size(pf, chunk_index)
             start_index == pf.chunk_size * chunk_index
         IN IF expected = None
            THEN [pf |-> removed, res |-> [kind |-> "ChunkIndexTooHigh"]]
            ELSE IF expected[1] # Len(bytes)
            THEN [pf |-> removed,
                  res |-> [kind |-> "ChunkSizeMismatch",
                           expected_size |-> expected[1], actual_size |-> Len(bytes)]]
            ELSE IF start_index + Len(bytes) > Len(pf.bytes)
            THEN [pf |-> pf, res |-> [kind |-> "Trap"]]
            ELSE [pf |-> [removed EXCEPT !.bytes = write_bytes(@, start_index, bytes)],
                  res |-> [kind |-> "Success"]]
    ELSE [pf |-> pf, res |-> [kind |-> "ChunkAlreadyExists"]]

\* impl From<PutChunkArgs> for PendingFile: the result of add_chunk is dropped
pending_file_from(args) ==
    LET pending_file ==
            [uploaded_by |-> args.uploaded_by,
             hash |-> args.hash,
             mime_type |-> args.mime_type,
             accessors |-> args.accessors,
             chunk_size |-> args.chunk_size,
             total_size |-> args.total_size,
             remaining_chunks |-> 0..(calc_chunk_count(args.chunk_size, args.total_size) - 1),
             bytes |-> [i \in 1..args.total_size |-> 0]]
    IN add_chunk(pending_file, args.chunk_index, args.bytes)

-----------------------------------------------------------------------------
(* Files *)

FilesDefault ==
    [files |-> EmptyMap, pending_files |-> EmptyMap, reference_counts |-> EmptyMap,
     accessors_map |-> EmptyMap, blobs |-> EmptyMap, bytes_used |-> 0]

\* faulty add_blob_if_not_exists: counts the bytes of every completed file
add_blob_always(self, hash, bytes) ==
    [self EXCEPT !.bytes_used = @ + Len(bytes), !.blobs = MapPut(@, hash, bytes)]

add_blob_if_not_exists(self, hash, bytes) ==
    IF hash \notin DOMAIN self.blobs
    THEN [self EXCEPT !.bytes_used = @ + Len(bytes),
                      !.blobs = MapPut(@, hash, bytes)]
    ELSE self

\* faulty remove_blob: the blob goes, bytes_used stays
remove_blob_bytes_kept(self, hash) ==
    [self EXCEPT !.blobs = MapRemove(@, hash)]

remove_blob(self, hash) ==
    IF hash \in DOMAIN self.blobs
    THEN [self EXCEPT !.bytes_used = @ - Len(self.blobs[hash]),
                      !.blobs = MapRemove(@, hash)]
    ELSE self

insert_completed_file(self, file_id, completed_file) ==
    LET linked == [self EXCEPT
            !.accessors_map = link_all(@, completed_file.accessors, file_id),
            !.files = MapPut(@, file_id,
                        [uploaded_by |-> completed_file.uploaded_by,
                         accessors |-> completed_file.accessors,
                         hash |-> completed_file.hash,
                         mime_type |-> completed_file.mime_type]),
            !.reference_counts = incr(@, completed_file.hash)]
    IN add_blob_if_not_exists(linked, completed_file.hash, completed_file.bytes)

\* faulty complete_file: the assembled file is stored before the hash is compared
complete_file_mismatch_stored(self, file_id, completed_file, file_added) ==
    IF hash_bytes(completed_file.bytes) # completed_file.hash
    THEN [self |-> insert_completed_file(self, file_id, completed_file),
          result |-> [kind |-> "HashMismatch",
                      provided_hash |-> completed_file.hash,
                      actual_hash |-> hash_bytes(completed_file.bytes),
                      chunk_count |-> chunk_count(completed_file)]]
    ELSE [self |-> insert_completed_file(self, file_id, completed_file),
          result |-> [kind |-> "Success", file_completed |-> TRUE,
                      file_added |-> file_added]]

\* the tail of put_chunk, from the hash check on
complete_file(self, file_id, completed_file, file_added) ==
    IF hash_bytes(completed_file.bytes) # completed_file.hash
    THEN [self |-> self,
          result |-> [kind |-> "HashMismatch",
                      provided_hash |-> completed_file.hash,
                      actual_hash |-> hash_bytes(completed_file.bytes),
                      chunk_count |-> chunk_count(completed_file)]]
    ELSE [self |-> insert_completed_file(self, file_id, completed_file),
          result |-> [kind |-> "Success", file_completed |-> TRUE,
                      file_added |-> file_added]]

\* faulty take_pending: the completed pending file stays in pending_files
take_pending_kept(self, file_id) == self

\* Some(e.remove()): the completed pending file leaves pending_files
take_pending(self, file_id) ==
    [self EXCEPT !.pending_files = MapRemove(@, file_id)]

\* faulty put_chunk: a later call replaces the uploader and the accessors of the
\* pending file by its own
put_chunk_metadata_retaken(self, args) ==
    IF args.total_size > MAX_BLOB_SIZE_BYTES
    THEN [self |-> self, result |-> [kind |-> "FileTooBig"]]
    ELSE IF args.file_id \in DOMAIN self.files
    THEN [self |-> self, result |-> [kind |-> "FileAlreadyExists"]]
    ELSE IF args.file_id \notin DOMAIN self.pending_files
    THEN LET file_added == Some([uploaded_by |-> args.uploaded_by,
                                 file_id |-> args.file_id,
                                 hash |-> args.hash,
                                 size |-> args.total_size])
             r == pending_file_from(args)
         IN IF r.res.kind = "Trap"
            THEN [self |-> self, result |-> [kind |-> "Trap"]]
            ELSE IF is_completed(r.pf)
            THEN complete_file(self, args.file_id, r.pf, file_added)
            ELSE [self |-> [self EXCEPT !.pending_files = MapPut(@, args.file_id, r.pf)],
                  result |-> [kind |-> "Success", file_completed |-> FALSE,
                              file_added |-> file_added]]
    ELSE LET retaken == [self.pending_files[args.file_id] EXCEPT
                            !.uploaded_by = args.uploaded_by,
                            !.accessors = args.accessors]
             r == add_chunk(retaken, args.chunk_index, args.bytes)
             kept == [self EXCEPT !.pending_files[args.file_id] = r.pf]
             taken == take_pending(self, args.file_id)
         IN IF r.res.kind = "Trap"
            THEN [self |-> self, result |-> [kind |-> "Trap"]]
            ELSE IF r.res.kind # "Success"
            THEN [self |-> kept, result |-> r.res]
            ELSE IF is_completed(r.pf)
            THEN complete_file(taken, args.file_id, r.pf, None)
            ELSE [self |-> kept,
                  result |-> [kind |-> "Success", file_completed |-> FALSE,
                              file_added |-> None]]

put_chunk(self, args) ==
    IF args.total_size > MAX_BLOB_SIZE_BYTES
    THEN [self |-> self, result |-> [kind |-> "FileTooBig"]]
    ELSE IF args.file_id \in DOMAIN self.files
    THEN [self |-> self, result |-> [kind |-> "FileAlreadyExists"]]
    ELSE IF args.file_id \notin DOMAIN self.pending_files
    THEN \* Vacant
         LET file_added == Some([uploaded_by |-> args.uploaded_by,
                                 file_id |-> args.file_id,
                                 hash |-> args.hash,
                                 size |-> args.total_size])
             r == pending_file_from(args)
         IN IF r.res.kind = "Trap"
            THEN [self |-> self, result |-> [kind |-> "Trap"]]
            ELSE IF is_completed(r.pf)
            THEN complete_file(self, args.file_id, r.pf, file_added)
            ELSE [self |-> [self EXCEPT !.pending_files = MapPut(@, args.file_id, r.pf)],
                  result |-> [kind |-> "Success", file_completed |-> FALSE,
                              file_added |-> file_added]]
    ELSE \* Occupied
         LET r == add_chunk(self.pending_files[args.file_id], args.chunk_index, args.bytes)
             kept == [self EXCEPT !.pending_files[args.file_id] = r.pf]
             taken == take_pending(self, args.file_id)
         IN IF r.res.kind = "Trap"
            THEN [self |-> self, result |-> [kind |-> "Trap"]]
            ELSE IF r.res.kind # "Success"
            THEN [self |-> kept, result |-> r.res]
            ELSE IF is_completed(r.pf)
            THEN complete_file(taken, args.file_id, r.pf, None)
            ELSE [self |-> kept,
                  result |-> [kind |-> "Success", file_completed |-> FALSE,
                              file_added |-> None]]

\* the branch of remove taken by the file's uploader
remove_owned(self, uploaded_by, file_id) ==
    LET file == self.files[file_id]
        d == decr(self.reference_counts, file.hash)
        unlinked == [self EXCEPT
              !.files = MapRemove(@, file_id),
              !.accessors_map = unlink_all(@, file.accessors, file_id),
              !.reference_counts = d.counts]
    IN [self |-> IF d.left = 0 THEN remove_blob(unlinked, file.hash) ELSE unlinked,
        result |-> [kind |-> "Success",
                    file_removed |-> [file_id |-> file_id,
                                      uploaded_by |-> uploaded_by,
                                      hash |-> file.hash,
                                      blob_deleted |-> d.left = 0]]]

\* faulty remove: no comparison of uploaded_by
remove_unchecked(self, uploaded_by, file_id) ==
    IF file_id \in DOMAIN self.files
    THEN remove_owned(self, uploaded_by, file_id)
    ELSE [self |-> self, result |-> [kind |-> "NotFound"]]

remove(self, uploaded_by, file_id) ==
    IF file_id \in DOMAIN self.files
    THEN IF self.files[file_id].uploaded_by # uploaded_by
         THEN [self |-> self, result |-> [kind |-> "NotAuthorized"]]
         ELSE remove_owned(self, uploaded_by, file_id)
    ELSE [self |-> self, result |-> [kind |-> "NotFound"]]

remove_pending_file(self, file_id) ==
    [self |-> [self EXCEPT !.pending_files = MapRemove(@, file_id)],
     result |-> [kind |-> "Bool", value |-> file_id \in DOMAIN self.pending_files]]

\* faulty remove_accessor_step: a file left without accessors is kept
remove_accessor_step_kept(self, accessor_id, file_id) ==
    IF file_id \in DOMAIN self.files
    THEN [self |-> [self EXCEPT !.files[file_id].accessors = @ \ {accessor_id}],
          removed |-> << >>]
    ELSE [self |-> self, removed |-> << >>]

\* one turn of the loop of remove_accessor over the accessor's file ids
remove_accessor_step(self, accessor_id, file_id) ==
    IF file_id \in DOMAIN self.files
    THEN LET file == self.files[file_id]
             accessors == file.accessors \ {accessor_id}
         IN IF accessors = {}
            THEN LET d == decr(self.reference_counts, file.hash)
                     gone == [self EXCEPT !.reference_counts = d.counts,
                                          !.files = MapRemove(@, file_id)]
                 IN [self |-> IF d.left = 0 THEN remove_blob(gone, file.hash) ELSE gone,
                     removed |-> <<[file_id |-> file_id,
                                    uploaded_by |-> file.uploaded_by,
                                    hash |-> file.hash,
                                    blob_deleted |-> d.left = 0]>>]
            ELSE [self |-> [self EXCEPT !.files[file_id].accessors = accessors],
                  removed |-> << >>]
    ELSE [self |-> self, removed |-> << >>]

RECURSIVE remove_accessor_loop(_, _, _)
remove_accessor_loop(self, accessor_id, file_ids) ==
    IF file_ids = << >> THEN [self |-> self, removed |-> << >>]
    ELSE LET one == remove_accessor_step(self, accessor_id, Head(file_ids))
             rest == remove_accessor_loop(one.self, accessor_id, Tail(file_ids))
         IN [self |-> rest.self, removed |-> one.removed \o rest.removed]

\* file_ids: the order in which the HashSet of the accessor's files is iterated
remove_accessor(self, accessor_id, file_ids) ==
    IF accessor_id \in DOMAIN self.accessors_map
    THEN LET taken == [self EXCEPT !.accessors_map = MapRemove(@, accessor_id)]
             r == remove_accessor_loop(taken, accessor_id, file_ids)
         IN [self |-> r.self, result |-> [kind |-> "FilesRemoved", files_removed |-> r.removed]]
    ELSE [self |-> self, result |-> [kind |-> "FilesRemoved", files_removed |-> << >>]]

blob_bytes(self, hash) ==
    IF hash \in DOMAIN self.blobs THEN Some(self.blobs[hash]) ELSE None

-----------------------------------------------------------------------------
(* Index: Data of index lib.rs.  A u64 that wrapped below zero is written   *)
(* as the negative number v standing for 2^64 + v.                          *)

BucketIds == {"b1", "b2"}

\* BlobBuckets.add: the first record of a hash fixes its size and bucket,
\* every accepted reference adds its user
blob_buckets_add(blob_buckets, hash, size, bucket, uploaded_by) ==
    IF hash \in DOMAIN blob_buckets
    THEN [blob_buckets EXCEPT ![hash].user_set = @ \cup {uploaded_by}]
    ELSE MapPut(blob_buckets, hash,
                [size |-> size, bucket |-> bucket, user_set |-> {uploaded_by}])

\* BlobBuckets.remove: drops the entry and returns its size
blob_buckets_remove(blob_buckets, hash, bucket) ==
    IF hash \in DOMAIN blob_buckets
    THEN [blob_buckets |-> MapRemove(blob_buckets, hash), size |-> Some(blob_buckets[hash].size)]
    ELSE [blob_buckets |-> blob_buckets, size |-> None]

\* BlobBuckets.get(..).map(|r| r.size)
blob_buckets_size(blob_buckets, hash) ==
    IF hash \in DOMAIN blob_buckets THEN Some(blob_buckets[hash].size) ELSE None

user_owns_blob(blob_buckets, user_id, hash) ==
    hash \in DOMAIN blob_buckets /\ user_id \in blob_buckets[hash].user_set

\* u64 comparison a > b, b never wrapped
u64_gt(a, b) == a < 0 \/ a > b

\* user.bytes_used + blob_size: overflows when a wrapped value comes back over 2^64
u64_add_overflows(a, b) == a < 0 /\ a + b >= 0

\* user.bytes_used -= blob_size: underflows when the value is below blob_size
u64_sub_underflows(a, b) == a >= 0 /\ a - b < 0

\* faulty add_blob_reference: an event that fills the allowance exactly is rejected
add_blob_reference_limit_excluded(self, bucket, br_added) ==
    IF br_added.uploaded_by \in DOMAIN self.users
    THEN LET user == self.users[br_added.uploaded_by] IN
         IF user.bytes_used + br_added.blob_size >= user.byte_limit
         THEN [self |-> self,
               result |-> [kind |-> "Err", blob_id |-> br_added.blob_id,
                           reason |-> "AllowanceReached"]]
         ELSE [self |-> [self EXCEPT
                    !.users[br_added.uploaded_by].bytes_used = @ + br_added.blob_size,
                    !.blob_buckets = blob_buckets_add(@, br_added.blob_hash,
                                        br_added.blob_size, bucket, br_added.uploaded_by)],
               result |-> [kind |-> "Ok"]]
    ELSE [self |-> self,
          result |-> [kind |-> "Err", blob_id |-> br_added.blob_id,
                      reason |-> "UserNotFound"]]

add_blob_reference(self, bucket, br_added) ==
    IF br_added.uploaded_by \in DOMAIN self.users
    THEN LET user == self.users[br_added.uploaded_by] IN
         IF self.overflow_checks /\ u64_add_overflows(user.bytes_used, br_added.blob_size)
         THEN [self |-> self, result |-> [kind |-> "Trap"]]
         ELSE IF u64_gt(user.bytes_used + br_added.blob_size, user.byte_limit)
         THEN [self |-> self,
               result |-> [kind |-> "Err", blob_id |-> br_added.blob_id,
                           reason |-> "AllowanceReached"]]
         ELSE [self |-> [self EXCEPT
                    !.users[br_added.uploaded_by].bytes_used = @ + br_added.blob_size,
                    !.blob_buckets = blob_buckets_add(@, br_added.blob_hash,
                                        br_added.blob_size, bucket, br_added.uploaded_by)],
               result |-> [kind |-> "Ok"]]
    ELSE [self |-> self,
          result |-> [kind |-> "Err", blob_id |-> br_added.blob_id,
                      reason |-> "UserNotFound"]]

remove_blob_reference(self, bucket, br_removed) ==
    LET r == IF br_removed.blob_deleted
             THEN blob_buckets_remove(self.blob_buckets, br_removed.blob_hash, bucket)
             ELSE [blob_buckets |-> self.blob_buckets,
                   size |-> blob_buckets_size(self.blob_buckets, br_removed.blob_hash)]
        removed == [self EXCEPT !.blob_buckets = r.blob_buckets]
    IN IF r.size # None /\ br_removed.uploaded_by \in DOMAIN self.users
       THEN IF self.overflow_checks
               /\ u64_sub_underflows(self.users[br_removed.uploaded_by].bytes_used, r.size[1])
            THEN [self |-> self, result |-> [kind |-> "Trap"]]
            ELSE [self |-> [removed EXCEPT
                        !.users[br_removed.uploaded_by].bytes_used = @ - r.size[1]],
                  result |-> [kind |-> "Unit"]]
       ELSE [self |-> removed, result |-> [kind |-> "Unit"]]

\* add_user_impl; synced is the queue Buckets.sync_event appends to
add_user(self, user_id, byte_limit) ==
    IF user_id \in DOMAIN self.users
    THEN [self |-> self, result |-> [kind |-> "UserAlreadyExists"]]
    ELSE [self |-> [self EXCEPT
                !.users = MapPut(@, user_id, [byte_limit |-> byte_limit, bytes_used |-> 0]),
                !.synced = Append(@, [kind |-> "UserAdded", user_id |-> user_id])],
          result |-> [kind |-> "Success"]]

\* index lib.rs DEFAULT_CHUNK_SIZE_BYTES, 1 << 19
DEFAULT_CHUNK_SIZE_BYTES == 524288

\* u64::checked_add of two values of which each may be written as a negative
\* number: None when the sum passes 2^64
u64_checked_add(a, b) ==
    IF (a < 0 /\ b < 0) \/ ((a < 0 \/ b < 0) /\ a + b >= 0)
    THEN None
    ELSE Some(a + b)

ProjectedAllowance(user, bytes_used_after_upload) ==
    [byte_limit |-> user.byte_limit, bytes_used |-> user.bytes_used,
     bytes_used_after_upload |-> bytes_used_after_upload,
     bytes_used_after_operation |-> bytes_used_after_upload]

\* faulty allocated_bucket_impl: file_size is added also for a hash the caller owns
allocated_bucket_always_added(self, caller, args, allocated) ==
    IF caller \in DOMAIN self.users
    THEN LET user == self.users[caller]
             after == u64_checked_add(user.bytes_used, args.file_size)
             bucket == IF args.file_hash \in DOMAIN self.blob_buckets
                       THEN Some(self.blob_buckets[args.file_hash].bucket)
                       ELSE allocated
         IN IF after = None THEN [kind |-> "Trap"]
            ELSE IF u64_gt(after[1], user.byte_limit)
            THEN [kind |-> "AllowanceExceeded",
                  projected_allowance |-> ProjectedAllowance(user, after[1])]
            ELSE IF bucket # None
            THEN [kind |-> "Success", canister_id |-> bucket[1],
                  chunk_size |-> DEFAULT_CHUNK_SIZE_BYTES,
                  projected_allowance |-> ProjectedAllowance(user, after[1])]
            ELSE [kind |-> "BucketUnavailable"]
    ELSE [kind |-> "UserNotFound"]

\* faulty allocated_bucket_impl: Buckets.allocate is asked first, the recorded
\* bucket of the hash only when it yields none
allocated_bucket_allocate_first(self, caller, args, allocated) ==
    IF caller \in DOMAIN self.users
    THEN LET user == self.users[caller]
             after == IF user_owns_blob(self.blob_buckets, caller, args.file_hash)
                      THEN Some(user.bytes_used)
                      ELSE u64_checked_add(user.bytes_used, args.file_size)
             bucket == IF allocated # None
                       THEN allocated
                       ELSE IF args.file_hash \in DOMAIN self.blob_buckets
                       THEN Some(self.blob_buckets[args.file_hash].bucket)
                       ELSE None
         IN IF after = None THEN [kind |-> "Trap"]
            ELSE IF u64_gt(after[1], user.byte_limit)
            THEN [kind |-> "AllowanceExceeded",
                  projected_allowance |-> ProjectedAllowance(user, after[1])]
            ELSE IF bucket # None
            THEN [kind |-> "Success", canister_id |-> bucket[1],
                  chunk_size |-> DEFAULT_CHUNK_SIZE_BYTES,
                  projected_allowance |-> ProjectedAllowance(user, after[1])]
            ELSE [kind |-> "BucketUnavailable"]
    ELSE [kind |-> "UserNotFound"]

\* allocated_bucket_impl, a query: it returns a response and changes nothing.
\* allocated is what Buckets.allocate returns for the hash; "Trap" is the
\* panic of the checked_add
allocated_bucket(self, caller, args, allocated) ==
    IF caller \in DOMAIN self.users
    THEN LET user == self.users[caller]
             after == IF user_owns_blob(self.blob_buckets, caller, args.file_hash)
                      THEN Some(user.bytes_used)
                      ELSE u64_checked_add(user.bytes_used, args.file_size)
             bucket == IF args.file_hash \in DOMAIN self.blob_buckets
                       THEN Some(self.blob_buckets[args.file_hash].bucket)
                       ELSE allocated
         IN IF after = None THEN [kind |-> "Trap"]
            ELSE IF u64_gt(after[1], user.byte_limit)
            THEN [kind |-> "AllowanceExceeded",
                  projected_allowance |-> ProjectedAllowance(user, after[1])]
            ELSE IF bucket # None
            THEN [kind |-> "Success", canister_id |-> bucket[1],
                  chunk_size |-> DEFAULT_CHUNK_SIZE_BYTES,
                  projected_allowance |-> ProjectedAllowance(user, after[1])]
            ELSE [kind |-> "BucketUnavailable"]
    ELSE [kind |-> "UserNotFound"]

\* Data::new; overflow_checks is the build's choice of panicking or wrapping
\* integer arithmetic
DataNew(overflow_checks) ==
    [users |-> EmptyMap, blob_buckets |-> EmptyMap, synced |-> << >>,
     overflow_checks |-> overflow_checks]

-----------------------------------------------------------------------------
(* The bucket: put_chunk, remove, remove_pending_file and remove_accessor   *)
(* called in any order with arguments from small sets.  result is the last  *)
(* operation, the file id a put_chunk was for, and what the call returned.  *)
(* A call that panics (a checked_add or checked_sub that fails, an          *)
(* out-of-bounds write) traps, and the state stays as it was before the     *)
(* call.                                                                    *)

\* the contents whose digests the callers of Spec declare
Contents == {<<1>>, <<0, 1>>}

Hashes == {hash_bytes(c) : c \in Contents}

ArgAccessors == {{}, {"a1", "a2"}}

Chunks == {<<0>>, <<1>>, <<0, 1>>}

Orders(S) == {o \in [1..Cardinality(S) -> S] : \A i, j \in 1..Cardinality(S) : o[i] = o[j] => i = j}

PutChunkArgs ==
    [uploaded_by : UserIds, file_id : FileIds, hash : Hashes, mime_type : MimeTypes,
     accessors : ArgAccessors, chunk_index : {0, 1},
     chunk_size : {1}, total_size : {1, 2}, bytes : Chunks]

\* calls whose total_size is over the cap
TooBigArgs ==
    [uploaded_by : {"u1"}, file_id : FileIds, hash : Hashes, mime_type : MimeTypes,
     accessors : {{}}, chunk_index : {0}, chunk_size : {1},
     total_size : {MAX_BLOB_SIZE_BYTES + 1}, bytes : {<<0>>}]

\* the state a call leaves: the one it computed, or the old one when it trapped
Commit(call, r) ==
    IF r.result.kind = "Trap" \/ r.self.bytes_used < 0
    THEN /\ store' = store
         /\ result' = call @@ [kind |-> "Trap"]
    ELSE /\ store' = r.self
         /\ result' = call @@ r.result

PutChunk(args) ==
    /\ Commit([op |-> "put_chunk", file_id |-> args.file_id], put_chunk(store, args))
    /\ UNCHANGED <<index, env>>

Remove(uploaded_by, file_id) ==
    /\ Commit([op |-> "remove"], remove(store, uploaded_by, file_id))
    /\ UNCHANGED <<index, env>>

RemovePendingFile(file_id) ==
    /\ Commit([op |-> "remove_pending_file"], remove_pending_file(store, file_id))
    /\ UNCHANGED <<index, env>>

RemoveAccessor(accessor_id) ==
    /\ \E file_ids \in Orders(IF accessor_id \in DOMAIN store.accessors_map
                              THEN store.accessors_map[accessor_id] ELSE {}) :
            Commit([op |-> "remove_accessor"], remove_accessor(store, accessor_id, file_ids))
    /\ UNCHANGED <<index, env>>

NoResult == [op |-> "none", kind |-> "none"]

Init ==
    /\ store = FilesDefault
    /\ index = DataNew(TRUE)
    /\ result = NoResult
    /\ env = None

Next ==
    \/ \E args \in PutChunkArgs \cup TooBigArgs :
            /\ \/ args.file_id \in DOMAIN store.pending_files
               \/ Cardinality(DOMAIN store.pending_files) < MaxPending
            /\ PutChunk(args)
    \/ \E uploaded_by \in UserIds, file_id \in FileIds : Remove(uploaded_by, file_id)
    \/ \E file_id \in FileIds : RemovePendingFile(file_id)
    \/ \E accessor_id \in AccessorIds : RemoveAccessor(accessor_id)

Spec == Init /\ [][Next]_vars

-----------------------------------------------------------------------------
(* One upload, SpecUpload: a client uploads a file of its choice as file    *)
(* UploadFileId, each chunk of the expected size once, in any order, with   *)
(* the digest of the file as declared hash.  Around it other callers put    *)
(* and remove single-chunk files under OtherFileId and remove accessors.    *)
(* env is the upload: the file, the chunk size and the indexes sent so far. *)

UploadFileId == "f1"

OtherFileId == "f2"

UploadContents == UNION {[1..n -> Byte] : n \in 1..MaxUploadSize}

Min(a, b) == IF a < b THEN a ELSE b

\* the bytes of chunk i of a file cut into chunks of chunk_size
ChunkOf(content, chunk_size, i) ==
    SubSeq(content, i * chunk_size + 1, Min((i + 1) * chunk_size, Len(content)))

UploadChunks(u) == 0..(calc_chunk_count(u.chunk_size, Len(u.content)) - 1)

SentSet(u) == {u.sent[k] : k \in 1..Len(u.sent)}

UploadArgs(u, i) ==
    [uploaded_by |-> u.uploaded_by, file_id |-> UploadFileId,
     hash |-> hash_bytes(u.content), mime_type |-> "text/plain",
     accessors |-> u.accessors, chunk_index |-> i, chunk_size |-> u.chunk_size,
     total_size |-> Len(u.content), bytes |-> ChunkOf(u.content, u.chunk_size, i)]

SendChunk(i) ==
    /\ i \in UploadChunks(env) \ SentSet(env)
    /\ Commit([op |-> "put_chunk", file_id |-> UploadFileId],
              put_chunk(store, UploadArgs(env, i)))
    /\ env' = [env EXCEPT !.sent = Append(@, i)]
    /\ UNCHANGED index

OtherPut(uploaded_by, content) ==
    PutChunk([uploaded_by |-> uploaded_by, file_id |-> OtherFileId,
              hash |-> hash_bytes(content), mime_type |-> "text/plain",
              accessors |-> {"a2"}, chunk_index |-> 0, chunk_size |-> Len(content),
              total_size |-> Len(content), bytes |-> content])

InitUpload ==
    /\ store = FilesDefault
    /\ index = DataNew(TRUE)
    /\ result = NoResult
    /\ env \in [content : UploadContents, chunk_size : 1..MaxUploadChunk,
                uploaded_by : {"u1"}, accessors : {{"a1", "a2"}}, sent : {<< >>}]

NextUpload ==
    \/ \E i \in 0..MaxUploadSize : SendChunk(i)
    \/ \E uploaded_by \in UserIds, content \in {env.content, <<0>>} :
            OtherPut(uploaded_by, content)
    \/ \E uploaded_by \in UserIds : Remove(uploaded_by, OtherFileId)
    \/ RemoveAccessor("a2")

SpecUpload == InitUpload /\ [][NextUpload]_vars

-----------------------------------------------------------------------------
(* The index, SpecIndex: users are added and the buckets report references  *)
(* added and removed.  env.refs is what the buckets hold: a reference is    *)
(* reported once under a fresh blob id, stays when the index accepted it,   *)
(* and its removal carries blob_deleted when it was the last reference of   *)
(* its hash in its bucket.  The size reported for a hash is the length of   *)
(* its content.  SpecRedelivery adds the second delivery of the event the   *)
(* index applied last (delivery is at-least-once).                          *)

BlobSizeOf(hash) == Len(CHOOSE c \in Contents : hash_bytes(c) = hash)

BlobReferenceAddedEvents ==
    {[uploaded_by |-> u, blob_id |-> f, blob_hash |-> h, blob_size |-> BlobSizeOf(h)] :
        u \in UserIds, f \in FileIds, h \in Hashes}

\* the BlobReferenceRemoved a bucket sends when it drops the reference ref
RemovedEventOf(refs, ref) ==
    [uploaded_by |-> ref.uploaded_by, blob_hash |-> ref.blob_hash,
     blob_deleted |-> ~\E other \in refs \ {ref} :
                          other.bucket = ref.bucket /\ other.blob_hash = ref.blob_hash]

\* the index state a call leaves: the one it computed, or the old one when it trapped
CommitIndex(call, r) ==
    /\ index' = IF r.result.kind = "Trap" THEN index ELSE r.self
    /\ result' = call @@ r.result

AddUser(user_id, byte_limit) ==
    /\ CommitIndex([op |-> "add_user"], add_user(index, user_id, byte_limit))
    /\ UNCHANGED <<store, env>>

AddBlobReference(bucket, br_added) ==
    /\ \A ref \in env.refs : ref.blob_id # br_added.blob_id
    /\ CommitIndex([op |-> "add_blob_reference", bucket |-> bucket, event |-> br_added],
                   add_blob_reference(index, bucket, br_added))
    /\ env' = IF result'.kind = "Ok"
              THEN [env EXCEPT !.refs = @ \cup
                        {[bucket |-> bucket, blob_id |-> br_added.blob_id,
                          uploaded_by |-> br_added.uploaded_by,
                          blob_hash |-> br_added.blob_hash]}]
              ELSE env
    /\ UNCHANGED store

RemoveBlobReference(ref) ==
    /\ ref \in env.refs
    /\ CommitIndex([op |-> "remove_blob_reference", bucket |-> ref.bucket,
                    event |-> RemovedEventOf(env.refs, ref)],
                   remove_blob_reference(index, ref.bucket, RemovedEventOf(env.refs, ref)))
    /\ env' = [env EXCEPT !.refs = @ \ {ref}]
    /\ UNCHANGED store

RedeliverAdded ==
    /\ env.redelivered < MaxRedeliveries
    /\ result.op = "add_blob_reference"
    /\ CommitIndex([op |-> "add_blob_reference", bucket |-> result.bucket,
                    event |-> result.event],
                   add_blob_reference(index, result.bucket, result.event))
    /\ env' = [env EXCEPT !.redelivered = @ + 1]
    /\ UNCHANGED store

RedeliverRemoved ==
    /\ env.redelivered < MaxRedeliveries
    /\ result.op = "remove_blob_reference"
    /\ CommitIndex([op |-> "remove_blob_reference", bucket |-> result.bucket,
                    event |-> result.event],
                   remove_blob_reference(index, result.bucket, result.event))
    /\ env' = [env EXCEPT !.redelivered = @ + 1]
    /\ UNCHANGED store

Refs == [bucket : BucketIds, blob_id : FileIds, uploaded_by : UserIds, blob_hash : Hashes]

InitIndex ==
    /\ store = FilesDefault
    /\ index \in {DataNew(overflow_checks) : overflow_checks \in BOOLEAN}
    /\ result = NoResult
    /\ env = [refs |-> {}, redelivered |-> 0]

NextIndex ==
    \/ \E user_id \in UserIds, byte_limit \in 2..MaxByteLimit : AddUser(user_id, byte_limit)
    \/ \E bucket \in BucketIds, br_added \in BlobReferenceAddedEvents :
            AddBlobReference(bucket, br_added)
    \/ \E ref \in Refs : RemoveBlobReference(ref)

SpecIndex == InitIndex /\ [][NextIndex]_vars

NextRedelivery ==
    \/ NextIndex
    \/ RedeliverAdded
    \/ RedeliverRemoved

SpecRedelivery == InitIndex /\ [][NextRedelivery]_vars

-----------------------------------------------------------------------------
(* Properties of the bucket, under Spec *)

FilesWithHash(self, h) == {f \in DOMAIN self.files : self.files[f].hash = h}

CountOf(self, h) ==
    IF h \in DOMAIN self.reference_counts THEN self.reference_counts[h] ELSE 0

KnownHashes(self) ==
    DOMAIN self.reference_counts \cup DOMAIN self.blobs
        \cup {self.files[f].hash : f \in DOMAIN self.files}

\* C1: for every hash the stored reference count is the number of completed
\* files with that hash, and a blob is stored under the hash exactly when
\* that number is at least 1.
C1_ReferenceCountsMatchFiles ==
    \A h \in KnownHashes(store) \cup Hashes :
        /\ CountOf(store, h) = Cardinality(FilesWithHash(store, h))
        /\ h \in DOMAIN store.blobs <=> CountOf(store, h) >= 1

\* a remove has just taken one of several files of a hash, and the blob stays
C1_Witness ==
    /\ result.op = "remove"
    /\ result.kind = "Success"
    /\ ~result.file_removed.blob_deleted
    /\ result.file_removed.hash \in DOMAIN store.blobs
    /\ CountOf(store, result.file_removed.hash) = 1

BlobLengths(self) == [h \in DOMAIN self.blobs |-> Len(self.blobs[h])]

\* C2: bytes_used is the sum of the lengths of the stored blobs, each blob
\* counted once however many files reference it.
C2_BytesUsedIsSumOfBlobs ==
    store.bytes_used = SumOver(BlobLengths(store), DOMAIN store.blobs)

\* two files share one stored blob
C2_Witness ==
    /\ result.op = "put_chunk"
    /\ result.kind = "Success"
    /\ result.file_completed
    /\ \E f, g \in DOMAIN store.files :
          /\ f # g
          /\ store.files[f].hash = store.files[g].hash
          /\ store.bytes_used = Len(store.blobs[store.files[f].hash])

\* C3: fid is in the accessor index entry of a exactly when the completed
\* file fid exists and names a among its accessors.
C3_AccessorsIndexMatchesFiles ==
    \A a \in AccessorIds \cup DOMAIN store.accessors_map, fid \in FileIds :
        (a \in DOMAIN store.accessors_map /\ fid \in store.accessors_map[a])
            <=> (fid \in DOMAIN store.files /\ a \in store.files[fid].accessors)

\* remove_accessor has deleted one file and kept another that names a second accessor
C3_Witness ==
    /\ result.op = "remove_accessor"
    /\ Len(result.files_removed) = 1
    /\ \E fid \in DOMAIN store.files : store.files[fid].accessors # {}

\* C4: no file id is a key of both the completed and the pending files.
C4_FilesAndPendingDisjoint ==
    DOMAIN store.files \cap DOMAIN store.pending_files = {}

\* a pending file has just become a completed file on a later chunk
C4_Witness ==
    /\ result.op = "put_chunk"
    /\ result.kind = "Success"
    /\ result.file_completed
    /\ result.file_added = None

\* C9: completing a file whose hash is already stored leaves the blobs and
\* bytes_used as they are, raises the reference count of the hash by 1 and
\* keeps the files that were there.
C9_SecondFileSharesBlob ==
    [][\A f \in FileIds :
        (/\ f \notin DOMAIN store.files
         /\ f \in DOMAIN store'.files
         /\ store'.files[f].hash \in DOMAIN store.blobs)
        => LET h == store'.files[f].hash IN
           /\ store'.blobs = store.blobs
           /\ store'.bytes_used = store.bytes_used
           /\ CountOf(store', h) = CountOf(store, h) + 1
           /\ \A g \in DOMAIN store.files :
                 g \in DOMAIN store'.files /\ store'.files[g] = store.files[g]]_vars

\* two files of different uploaders share a hash, the second just completed
C9_Witness ==
    /\ result.op = "put_chunk"
    /\ result.kind = "Success"
    /\ result.file_completed
    /\ \E f, g \in DOMAIN store.files :
          /\ store.files[f].hash = store.files[g].hash
          /\ store.files[f].uploaded_by # store.files[g].uploaded_by
          /\ CountOf(store, store.files[f].hash) = 2

\* C10: a remove of a file id that is no completed file returns NotFound, a
\* remove by another user than the uploader returns NotAuthorized, and a
\* remove that does not succeed changes nothing of the bucket.
C10_FailedRemoveChangesNothing ==
    [][\A u \in UserIds, f \in FileIds :
        Remove(u, f) =>
            /\ f \notin DOMAIN store.files
                  => result'.kind = "NotFound" /\ store' = store
            /\ (f \in DOMAIN store.files /\ store.files[f].uploaded_by # u)
                  => result'.kind = "NotAuthorized" /\ store' = store
            /\ result'.kind # "Success" => store' = store]_vars

\* a remove by the wrong user was refused while another file id is only pending
C10_Witness ==
    /\ result.op = "remove"
    /\ result.kind = "NotAuthorized"
    /\ DOMAIN store.files # {}
    /\ DOMAIN store.pending_files # {}

-----------------------------------------------------------------------------
(* Properties of one upload, under SpecUpload *)

\* C8: when the chunks of a file are put once each, in any order, with the
\* digest of the file as hash, the call that brings the last missing chunk
\* returns Success with file_completed, and blob_bytes of the hash is then
\* the file, chunk after chunk.
C8_UploadRoundTrip ==
    [][(SentSet(env') = UploadChunks(env) /\ SentSet(env) # UploadChunks(env))
        => /\ result'.op = "put_chunk"
           /\ result'.kind = "Success"
           /\ result'.file_completed
           /\ UploadFileId \in DOMAIN store'.files
           /\ blob_bytes(store', hash_bytes(env.content)) = Some(env.content)]_vars

\* a file of several chunks, the last one short, sent out of order and completed
C8_Witness ==
    /\ Len(env.sent) >= 2
    /\ env.sent[1] > env.sent[2]
    /\ Len(env.content) % env.chunk_size # 0
    /\ result.op = "put_chunk"
    /\ result.kind = "Success"
    /\ result.file_completed
    /\ blob_bytes(store, hash_bytes(env.content)) = Some(env.content)

-----------------------------------------------------------------------------
(* Properties of the index, under SpecIndex and SpecRedelivery *)

RecordedSizes(self) == [h \in DOMAIN self.blob_buckets |-> self.blob_buckets[h].size]

ReferencedBy(self, user_id) ==
    {h \in DOMAIN self.blob_buckets : user_id \in self.blob_buckets[h].user_set}

\* C5: each user's bytes_used is the sum of the recorded sizes of the hashes
\* the user references.
C5_BytesUsedIsSumOfReferenced ==
    \A u \in DOMAIN index.users :
        index.users[u].bytes_used = SumOver(RecordedSizes(index), ReferencedBy(index, u))

\* C6: a BlobReferenceAdded that the index accepted and that is applied a
\* second time does not raise the user's bytes_used again.
C6_AddedTwiceChargedOnce ==
    [][(RedeliverAdded /\ result.kind = "Ok")
        => index'.users[result.event.uploaded_by].bytes_used
              = index.users[result.event.uploaded_by].bytes_used]_vars

\* C7: a BlobReferenceRemoved that the index applied and that is applied a
\* second time changes no user's bytes_used and no BlobBuckets entry.
C7_RemovedTwiceIsNoOp ==
    [][(RedeliverRemoved /\ result.kind = "Unit")
        => /\ index'.users = index.users
           /\ index'.blob_buckets = index.blob_buckets]_vars

-----------------------------------------------------------------------------
(* Properties of remove and remove_accessor, under Spec *)

\* C11: a remove by the uploader that succeeds deletes the file, takes the
\* file id out of the index entry of every accessor the file named, lowers
\* the reference count of the hash by 1, and removes the blob and subtracts
\* its length from bytes_used exactly when no other completed file has the
\* hash; blob_deleted of the returned FileRemoved is true exactly then.
C11_SuccessfulRemove ==
    [][\A u \in UserIds, f \in FileIds :
        (Remove(u, f) /\ result'.kind = "Success") =>
            LET file == store.files[f]
                h == file.hash
                others == FilesWithHash(store, h) \ {f}
            IN /\ file.uploaded_by = u
               /\ f \notin DOMAIN store'.files
               /\ \A g \in DOMAIN store.files \ {f} :
                     g \in DOMAIN store'.files /\ store'.files[g] = store.files[g]
               /\ \A a \in file.accessors :
                     ~(a \in DOMAIN store'.accessors_map /\ f \in store'.accessors_map[a])
               /\ CountOf(store', h) = CountOf(store, h) - 1
               /\ IF others = {}
                  THEN /\ h \notin DOMAIN store'.blobs
                       /\ store'.blobs = MapRemove(store.blobs, h)
                       /\ store'.bytes_used = store.bytes_used - Len(store.blobs[h])
                  ELSE /\ store'.blobs = store.blobs
                       /\ store'.bytes_used = store.bytes_used
               /\ result'.file_removed =
                     [file_id |-> f, uploaded_by |-> u, hash |-> h,
                      blob_deleted |-> others = {}]]_vars

\* a remove has deleted the last file of a hash and its blob, another blob stays
C11_Witness ==
    /\ result.op = "remove"
    /\ result.kind = "Success"
    /\ result.file_removed.blob_deleted
    /\ result.file_removed.hash \notin DOMAIN store.blobs
    /\ DOMAIN store.blobs # {}
    /\ store.bytes_used > 0

\* the FileRemoved records of remove_accessor with a given hash, from position k on
LaterWithHash(removed, k, h) == {j \in (k + 1)..Len(removed) : removed[j].hash = h}

\* C12: remove_accessor(a) takes a out of every completed file that names
\* it; the files left without accessors, and only they, are deleted whoever
\* uploaded them and are returned as FileRemoved, blob_deleted being true on
\* the one removal that leaves the hash without files; a file that names
\* another accessor stays, without a, its blob stored and counted.  When no
\* file names a, nothing is returned and nothing changes.
C12_RemoveAccessor ==
    [][\A a \in AccessorIds :
        RemoveAccessor(a) =>
            LET named == {f \in DOMAIN store.files : a \in store.files[f].accessors}
                emptied == {f \in named : store.files[f].accessors = {a}}
                removed == result'.files_removed
            IN /\ result'.kind = "FilesRemoved"
               /\ DOMAIN store'.files = DOMAIN store.files \ emptied
               /\ Len(removed) = Cardinality(emptied)
               /\ {removed[k].file_id : k \in 1..Len(removed)} = emptied
               /\ \A k \in 1..Len(removed) :
                     /\ removed[k].uploaded_by = store.files[removed[k].file_id].uploaded_by
                     /\ removed[k].hash = store.files[removed[k].file_id].hash
                     /\ removed[k].blob_deleted
                           = (/\ FilesWithHash(store', removed[k].hash) = {}
                              /\ LaterWithHash(removed, k, removed[k].hash) = {})
                     /\ removed[k].blob_deleted
                           => removed[k].hash \notin DOMAIN store'.blobs
               /\ \A f \in DOMAIN store'.files :
                     /\ store'.files[f] = [store.files[f] EXCEPT !.accessors = @ \ {a}]
                     /\ store'.files[f].hash \in DOMAIN store'.blobs
                     /\ store'.blobs[store'.files[f].hash] = store.blobs[store.files[f].hash]
                     /\ CountOf(store', store.files[f].hash)
                           = CountOf(store, store.files[f].hash)
                               - Cardinality(emptied \cap FilesWithHash(store, store.files[f].hash))
               /\ a \notin DOMAIN store'.accessors_map
               /\ named = {} => (removed = << >> /\ store' = store)]_vars

\* remove_accessor has deleted a file of another uploader's hash while a file
\* with the same hash that names a second accessor stays
C12_Witness ==
    /\ result.op = "remove_accessor"
    /\ Len(result.files_removed) = 1
    /\ ~result.files_removed[1].blob_deleted
    /\ \E f \in DOMAIN store.files :
          /\ store.files[f].hash = result.files_removed[1].hash
          /\ store.files[f].uploaded_by # result.files_removed[1].uploaded_by
          /\ Cardinality(store.files[f].accessors) = 1

-----------------------------------------------------------------------------
(* Properties of put_chunk, under Spec *)

\* the call that uploads content as one chunk, with its digest as declared hash
WholeFileArgs(uploaded_by, file_id, accessors, content) ==
    [uploaded_by |-> uploaded_by, file_id |-> file_id, hash |-> hash_bytes(content),
     mime_type |-> "text/plain", accessors |-> accessors, chunk_index |-> 0,
     chunk_size |-> Len(content), total_size |-> Len(content), bytes |-> content]

\* C13: when put_chunk returns HashMismatch, the file id has no pending file
\* any more and the files, blobs, reference counts and accessor links are as
\* before the call; an upload of the same file id with the same declared
\* hash (the one the upload began with) and the bytes that hash to it then
\* succeeds and completes the file.
C13_HashMismatchDiscards ==
    [][(result'.op = "put_chunk" /\ result'.kind = "HashMismatch") =>
        /\ result'.file_id \notin DOMAIN store'.pending_files
        /\ store'.pending_files = MapRemove(store.pending_files, result'.file_id)
        /\ store'.files = store.files
        /\ store'.blobs = store.blobs
        /\ store'.bytes_used = store.bytes_used
        /\ store'.reference_counts = store.reference_counts
        /\ store'.accessors_map = store.accessors_map
        /\ result'.actual_hash # result'.provided_hash
        /\ \A content \in {c \in Contents : hash_bytes(c) = result'.provided_hash},
              uploaded_by \in UserIds, accessors \in ArgAccessors :
                  LET again == put_chunk(store',
                          WholeFileArgs(uploaded_by, result'.file_id, accessors, content)).result
                  IN again = [kind |-> "Success", file_completed |-> TRUE,
                              file_added |-> Some([uploaded_by |-> uploaded_by,
                                                   file_id |-> result'.file_id,
                                                   hash |-> result'.provided_hash,
                                                   size |-> Len(content)])]]_vars

\* the last chunk of a file of two chunks has brought a buffer with another
\* digest than declared, and the pending file is gone
C13_Witness ==
    /\ result.op = "put_chunk"
    /\ result.kind = "HashMismatch"
    /\ result.chunk_count = 2
    /\ DOMAIN store.pending_files = {}

\* the chunk_count a put_chunk call is checked against: the one of the pending
\* file of its file id, or the one of the file the call begins
ChunkCountFor(self, args) ==
    IF args.file_id \in DOMAIN self.pending_files
    THEN chunk_count(self.pending_files[args.file_id])
    ELSE calc_chunk_count(args.chunk_size, args.total_size)

\* the length the chunk of a put_chunk call must have (chunk_index below chunk_count)
ExpectedSizeFor(self, args) ==
    LET size == IF args.file_id \in DOMAIN self.pending_files
                THEN [chunk_size |-> self.pending_files[args.file_id].chunk_size,
                      total_size |-> self.pending_files[args.file_id].total_size]
                ELSE [chunk_size |-> args.chunk_size, total_size |-> args.total_size]
    IN IF args.chunk_index < ChunkCountFor(self, args) - 1
       THEN size.chunk_size
       ELSE ((size.total_size - 1) % size.chunk_size) + 1

\* a put_chunk call that gets past the FileTooBig and FileAlreadyExists checks
PastFileChecks(self, args) ==
    /\ args.total_size <= MAX_BLOB_SIZE_BYTES
    /\ args.file_id \notin DOMAIN self.files

ChunkErrors == {"ChunkIndexTooHigh", "ChunkSizeMismatch", "ChunkAlreadyExists"}

\* C14: a put_chunk on a pending file that fails with ChunkIndexTooHigh,
\* ChunkSizeMismatch or ChunkAlreadyExists leaves the pending file as it was,
\* remaining_chunks and buffer included.
C14_FailedChunkKeepsPending ==
    [][(result'.op = "put_chunk" /\ result'.kind \in ChunkErrors
            /\ result'.file_id \in DOMAIN store.pending_files)
        => /\ result'.file_id \in DOMAIN store'.pending_files
           /\ store'.pending_files[result'.file_id] = store.pending_files[result'.file_id]]_vars

\* C15: a put_chunk whose chunk_index is at or over chunk_count fails with
\* ChunkIndexTooHigh, on the first chunk of a file id as on a later one.
C15_IndexTooHighRejected ==
    [][\A args \in PutChunkArgs :
        (/\ PastFileChecks(store, args)
         /\ args.chunk_index >= ChunkCountFor(store, args)
         /\ PutChunk(args))
        => result'.kind = "ChunkIndexTooHigh"]_vars

\* C16: a put_chunk of a chunk not yet received whose length is not the
\* expected one fails with ChunkSizeMismatch carrying the expected and the
\* actual length, on the first chunk of a file id as on a later one.
C16_WrongSizeRejected ==
    [][\A args \in PutChunkArgs :
        (/\ PastFileChecks(store, args)
         /\ args.chunk_index < ChunkCountFor(store, args)
         /\ args.file_id \in DOMAIN store.pending_files
               => args.chunk_index \in store.pending_files[args.file_id].remaining_chunks
         /\ Len(args.bytes) # ExpectedSizeFor(store, args)
         /\ PutChunk(args))
        => /\ result'.kind = "ChunkSizeMismatch"
           /\ result'.expected_size = ExpectedSizeFor(store, args)
           /\ result'.actual_size = Len(args.bytes)]_vars

-----------------------------------------------------------------------------
(* SpecZeroSize: the bucket of Spec, with callers that also declare a       *)
(* total_size of 0, with the digest of the empty file or another one.       *)

ZeroSizeArgs ==
    [uploaded_by : {"u1"}, file_id : FileIds,
     hash : {hash_bytes(<< >>), hash_bytes(<<1>>)}, mime_type : MimeTypes,
     accessors : {{"a1", "a2"}}, chunk_index : {0}, chunk_size : {1},
     total_size : {0}, bytes : {<< >>, <<0>>}]

PutZeroSize(args) == PutChunk(args)

NextZeroSize ==
    \/ Next
    \/ \E args \in ZeroSizeArgs : PutZeroSize(args)

SpecZeroSize == Init /\ [][NextZeroSize]_vars

\* C17: a put_chunk with total_size = 0 does not return Success and leaves
\* the pending files, the completed files and the blobs as they were.
C17_ZeroSizeRejected ==
    [][\A args \in ZeroSizeArgs :
        PutZeroSize(args) =>
            /\ result'.kind # "Success"
            /\ store'.pending_files = store.pending_files
            /\ store'.files = store.files
            /\ store'.blobs = store.blobs]_vars

-----------------------------------------------------------------------------
(* SpecAdded: put_chunk and remove_pending_file in any order.  env.added    *)
(* counts, for each file id, the FileAdded records its upload has produced: *)
(* the Success results of put_chunk that carry file_added = Some.  An       *)
(* upload ends when remove_pending_file discards its pending file, and the  *)
(* next put_chunk of the file id begins another one.  The callers begin an  *)
(* upload with a chunk of a valid index and of the expected length; the     *)
(* later chunks are any.                                                    *)

\* the calls whose chunk_index and length fit the file they declare
WellFormedArgs ==
    {args \in PutChunkArgs :
        /\ args.chunk_index < calc_chunk_count(args.chunk_size, args.total_size)
        /\ Len(args.bytes)
              = IF args.chunk_index < calc_chunk_count(args.chunk_size, args.total_size) - 1
                THEN args.chunk_size
                ELSE ((args.total_size - 1) % args.chunk_size) + 1}

PutChunkCounted(args) ==
    /\ env.added[args.file_id] < MaxFileAdded
    /\ Commit([op |-> "put_chunk", file_id |-> args.file_id], put_chunk(store, args))
    /\ env' = IF result'.kind = "Success" /\ result'.file_added # None
              THEN [env EXCEPT !.added[args.file_id] = @ + 1]
              ELSE env
    /\ UNCHANGED index

RemovePendingFileCounted(file_id) ==
    /\ Commit([op |-> "remove_pending_file"], remove_pending_file(store, file_id))
    /\ env' = IF result'.value THEN [env EXCEPT !.added[file_id] = 0] ELSE env
    /\ UNCHANGED index

InitAdded ==
    /\ store = FilesDefault
    /\ index = DataNew(TRUE)
    /\ result = NoResult
    /\ env = [added |-> [f \in FileIds |-> 0]]

NextAdded ==
    \/ \E args \in PutChunkArgs :
            /\ \/ args.file_id \in DOMAIN store.pending_files
               \/ /\ Cardinality(DOMAIN store.pending_files) < MaxPending
                  /\ args \in WellFormedArgs
            /\ PutChunkCounted(args)
    \/ \E file_id \in FileIds : RemovePendingFileCounted(file_id)

SpecAdded == InitAdded /\ [][NextAdded]_vars

\* C18: a put_chunk that succeeds carries file_added = Some exactly when it
\* is the call that creates the pending file of its file id, and over any
\* sequence of put_chunk and remove_pending_file calls the upload of a file
\* id produces one FileAdded, never a second one.
C18_OneFileAddedPerUpload ==
    [][/\ (result'.op = "put_chunk" /\ result'.kind = "Success")
            => (result'.file_added # None
                    <=> result'.file_id \notin DOMAIN store.pending_files)
       /\ \A f \in FileIds :
            /\ env'.added[f] <= 1
            /\ f \in DOMAIN store'.pending_files \cup DOMAIN store'.files
                  => env'.added[f] = 1]_vars

-----------------------------------------------------------------------------
(* SpecAllocate: the index of SpecIndex, with callers that ask for a bucket.*)
(* file_size is any u64 of the caller's choice: a small one, or 2^64 - 1,   *)
(* written -1.  Buckets.allocate finds a bucket or none.                    *)

FileSizes == {1, 2, -1}

AllocatedBucketArgs == [file_hash : Hashes, file_size : FileSizes]

AllocatedBucket(caller, args, allocated) ==
    /\ result' = [op |-> "allocated_bucket", caller |-> caller, args |-> args,
                  allocated |-> allocated]
                    @@ allocated_bucket(index, caller, args, allocated)
    /\ UNCHANGED <<store, index, env>>

NextAllocate ==
    \/ NextIndex
    \/ \E caller \in UserIds, args \in AllocatedBucketArgs,
          allocated \in {None, Some("b2")} :
            AllocatedBucket(caller, args, allocated)

SpecAllocate == InitIndex /\ [][NextAllocate]_vars

\* what the upload would add to the caller's bytes_used
ChargeFor(self, caller, args) ==
    IF user_owns_blob(self.blob_buckets, caller, args.file_hash) THEN 0 ELSE args.file_size

\* bytes_used + charge is over byte_limit, as numbers; bytes_used and
\* byte_limit are below 2^63 here and a charge of -1 stands for 2^64 - 1
SumExceedsLimit(user, charge) ==
    charge < 0 \/ user.bytes_used + charge > user.byte_limit

\* C19 as stated: for a registered caller allocated_bucket returns
\* AllowanceExceeded exactly when bytes_used plus the charge (0 for a hash the
\* caller references, file_size otherwise) is over byte_limit, whatever the
\* bucket lookup would give, with both projected fields equal to that sum;
\* an unregistered caller gets UserNotFound.
C19_AllowanceExceededExactly ==
    result.op = "allocated_bucket" =>
        IF result.caller \in DOMAIN index.users
        THEN LET user == index.users[result.caller]
                 charge == ChargeFor(index, result.caller, result.args)
             IN /\ result.kind = "AllowanceExceeded" <=> SumExceedsLimit(user, charge)
                /\ result.kind \in {"AllowanceExceeded", "Success"} =>
                      /\ result.projected_allowance.bytes_used_after_upload
                            = user.bytes_used + charge
                      /\ result.projected_allowance.bytes_used_after_operation
                            = user.bytes_used + charge
        ELSE result.kind = "UserNotFound"

\* C19 amended: as stated when bytes_used plus the charge is below 2^64; when
\* it is not, the call panics and returns no response.
C19_AllowanceExceededUnlessOverflow ==
    result.op = "allocated_bucket" =>
        IF result.caller \in DOMAIN index.users
        THEN LET user == index.users[result.caller]
                 charge == ChargeFor(index, result.caller, result.args)
             IN IF charge < 0 /\ user.bytes_used + charge >= 0
                THEN result.kind = "Trap"
                ELSE /\ result.kind = "AllowanceExceeded" <=> SumExceedsLimit(user, charge)
                     /\ result.kind \in {"Success", "BucketUnavailable"}
                            <=> ~SumExceedsLimit(user, charge)
                     /\ result.kind \in {"AllowanceExceeded", "Success"} =>
                           result.projected_allowance
                              = [byte_limit |-> user.byte_limit,
                                 bytes_used |-> user.bytes_used,
                                 bytes_used_after_upload |-> user.bytes_used + charge,
                                 bytes_used_after_operation |-> user.bytes_used + charge]
        ELSE result.kind = "UserNotFound"

\* a caller whose quota has no room for file_size is given a bucket for a
\* hash it references already, with bytes_used_after_upload = bytes_used
C19_Witness ==
    /\ result.op = "allocated_bucket"
    /\ result.kind = "Success"
    /\ result.args.file_size > 0
    /\ user_owns_blob(index.blob_buckets, result.caller, result.args.file_hash)
    /\ index.users[result.caller].bytes_used + result.args.file_size
          > index.users[result.caller].byte_limit
    /\ result.projected_allowance.bytes_used_after_upload
          = index.users[result.caller].bytes_used

-----------------------------------------------------------------------------
(* Properties of add_blob_reference, under SpecIndex *)

-----------------------------------------------------------------------------
(* Properties of the quota and of BlobBuckets, under SpecIndex and          *)
(* SpecRedelivery *)

\* C21: when the index records a reference to a hash for a user who already
\* references the hash, the event is accepted and the user's bytes_used stays
\* as it was (so an upload that allocated_bucket projected at no cost is
\* neither rejected with AllowanceReached nor charged).
C21_OwnedHashNotCharged ==
    [][(/\ result'.op = "add_blob_reference"
        /\ AddBlobReference(result'.bucket, result'.event)
        /\ user_owns_blob(index.blob_buckets, result'.event.uploaded_by,
                          result'.event.blob_hash))
        => /\ result'.kind = "Ok"
           /\ index'.users[result'.event.uploaded_by].bytes_used
                 = index.users[result'.event.uploaded_by].bytes_used]_vars

\* the size remove_blob_reference takes off: the recorded size of the hash
RecordedSize(self, hash) ==
    IF hash \in DOMAIN self.blob_buckets THEN self.blob_buckets[hash].size ELSE 0

\* C22: remove_blob_reference takes the recorded size of the hash off the
\* uploader's bytes_used and drops the BlobBuckets entry when blob_deleted is
\* true; when the size is more than bytes_used the call aborts, and no
\* user's bytes_used is ever stored wrapped around.
C22_UnderflowIsFatal ==
    [][(result'.op = "remove_blob_reference") =>
        LET ev == result'.event
            size == RecordedSize(index, ev.blob_hash)
            known == ev.uploaded_by \in DOMAIN index.users
        IN /\ \A u \in DOMAIN index'.users : index'.users[u].bytes_used >= 0
           /\ IF known /\ index.users[ev.uploaded_by].bytes_used < size
              THEN result'.kind = "Trap" /\ index' = index
              ELSE /\ result'.kind = "Unit"
                   /\ known => index'.users[ev.uploaded_by].bytes_used
                                  = index.users[ev.uploaded_by].bytes_used - size
                   /\ ev.blob_deleted => ev.blob_hash \notin DOMAIN index'.blob_buckets]_vars

\* the references to a hash that the buckets hold
RefsTo(refs, hash) == {ref \in refs : ref.blob_hash = hash}

-----------------------------------------------------------------------------
(* The order of the checks of put_chunk, under SpecAdded *)

\* the first check of the documented order that a put_chunk call fails
FirstFailure(self, args) ==
    IF args.total_size > MAX_BLOB_SIZE_BYTES THEN "FileTooBig"
    ELSE IF args.file_id \in DOMAIN self.files THEN "FileAlreadyExists"
    ELSE IF args.chunk_index >= ChunkCountFor(self, args) THEN "ChunkIndexTooHigh"
    ELSE IF Len(args.bytes) # ExpectedSizeFor(self, args) THEN "ChunkSizeMismatch"
    ELSE IF /\ args.file_id \in DOMAIN self.pending_files
            /\ args.chunk_index \notin self.pending_files[args.file_id].remaining_chunks
         THEN "ChunkAlreadyExists"
    ELSE "none"

\* C28: put_chunk answers with the first check that fails in the order
\* FileTooBig, FileAlreadyExists, ChunkIndexTooHigh, ChunkSizeMismatch,
\* ChunkAlreadyExists; a chunk index already received that comes again with a
\* wrong length is answered ChunkSizeMismatch.
C28_FirstFailingCheck ==
    [][\A args \in PutChunkArgs :
        (/\ FirstFailure(store, args) # "none"
         /\ args.file_id \in DOMAIN store.pending_files \/ args \in WellFormedArgs
         /\ PutChunkCounted(args))
        => result'.kind = FirstFailure(store, args)]_vars

-----------------------------------------------------------------------------
(* The bucket lookup of allocated_bucket, under SpecAllocate *)

\* C29: an allocated_bucket call that is within quota answers with the bucket
\* recorded for file_hash when the hash is known, whatever Buckets.allocate
\* would give, and with the bucket Buckets.allocate gives when the hash is
\* unknown; it answers BucketUnavailable only for an unknown hash for which
\* Buckets.allocate gives none, and every Success carries the chunk_size
\* DEFAULT_CHUNK_SIZE_BYTES.
C29_RecordedBucketFirst ==
    (result.op = "allocated_bucket" /\ result.kind \in {"Success", "BucketUnavailable"}) =>
        LET hash == result.args.file_hash
        IN /\ result.kind = "Success" => result.chunk_size = DEFAULT_CHUNK_SIZE_BYTES
           /\ IF hash \in DOMAIN index.blob_buckets
              THEN /\ result.kind = "Success"
                   /\ result.canister_id = index.blob_buckets[hash].bucket
              ELSE IF result.allocated # None
              THEN /\ result.kind = "Success"
                   /\ result.canister_id = result.allocated[1]
              ELSE result.kind = "BucketUnavailable"

\* a known hash recorded for b1 is answered with b1 although Buckets.allocate
\* would give b2
C29_Witness ==
    /\ result.op = "allocated_bucket"
    /\ result.kind = "Success"
    /\ result.args.file_hash \in DOMAIN index.blob_buckets
    /\ result.allocated # None
    /\ result.allocated[1] # index.blob_buckets[result.args.file_hash].bucket
    /\ result.canister_id = index.blob_buckets[result.args.file_hash].bucket

-----------------------------------------------------------------------------
(* SpecSync: the bucket canister around Files.  env is the rest of its      *)
(* Data: the principal that installed it and the index_canister_id stored   *)
(* from it, the users the index has told it of, and index_sync_state, the   *)
(* queue of events for the index with the batch that is on its way.         *)
(* Users upload through upload_chunk, the index calls c2c_sync_index, and   *)
(* the heartbeat pushes the queued events to the index.                     *)

Principals == {"p1", "p2"}

MAX_EVENTS_TO_SYNC_PER_BATCH == 1

MaxQueued == 1

\* Users.add
users_add(users, user_id) == users \cup {user_id}

\* Users.remove: the user that was removed, if there was one
users_remove(users, user_id) ==
    [users |-> users \ {user_id},
     user |-> IF user_id \in users THEN Some(user_id) ELSE None]

\* User.files_owned: the ids of the user's files, as order iterates them
files_owned(files, user_id, order) ==
    SelectSeq(order, LAMBDA f :
        \/ f \in DOMAIN files.files /\ files.files[f].uploaded_by = user_id
        \/ f \in DOMAIN files.pending_files
              /\ files.pending_files[f].uploaded_by = user_id)

IndexSyncStateDefault == [queue |-> << >>, in_flight |-> None]

EventToSync(kind, event) == [kind |-> kind, event |-> event]

\* IndexSyncState.enqueue
enqueue(self, event) == [self EXCEPT !.queue = Append(@, event)]

\* the guard of c2c_sync_index
caller_is_index_canister(data, caller) == caller = data.index_canister_id

\* Vec::split_off
split_off(vec, at) ==
    [kept |-> SubSeq(vec, 1, at), excess |-> SubSeq(vec, at + 1, Len(vec))]

\* c2c_sync_index_impl, the loop over users_added
RECURSIVE add_users(_, _)
add_users(users, users_added) ==
    IF users_added = << >> THEN users
    ELSE add_users(users_add(users, Head(users_added)), Tail(users_added))

\* c2c_sync_index_impl, the loop over the files a removed user owned
RECURSIVE remove_files_owned(_, _, _)
remove_files_owned(files, user_id, file_ids) ==
    IF file_ids = << >> THEN [files |-> files, removed |-> << >>]
    ELSE LET r == remove(files, user_id, Head(file_ids))
             rest == remove_files_owned(r.self, user_id, Tail(file_ids))
         IN [files |-> rest.files,
             removed |-> (IF r.result.kind = "Success"
                          THEN <<r.result.file_removed>> ELSE << >>) \o rest.removed]

\* c2c_sync_index_impl, the loop over users_removed
RECURSIVE remove_users(_, _, _, _)
remove_users(users, files, users_removed, order) ==
    IF users_removed = << >> THEN [users |-> users, files |-> files, removed |-> << >>]
    ELSE LET user_id == Head(users_removed)
             u == users_remove(users, user_id)
             r == IF u.user # None
                  THEN remove_files_owned(files, user_id, files_owned(files, user_id, order))
                  ELSE [files |-> files, removed |-> << >>]
             rest == remove_users(u.users, r.files, Tail(users_removed), order)
         IN [users |-> rest.users, files |-> rest.files,
             removed |-> r.removed \o rest.removed]

\* c2c_sync_index_impl, the loop over accessors_removed
RECURSIVE remove_accessors(_, _, _)
remove_accessors(files, accessors_removed, order) ==
    IF accessors_removed = << >> THEN [files |-> files, removed |-> << >>]
    ELSE LET accessor_id == Head(accessors_removed)
             file_ids == SelectSeq(order, LAMBDA f :
                            /\ accessor_id \in DOMAIN files.accessors_map
                            /\ f \in files.accessors_map[accessor_id])
             r == remove_accessor(files, accessor_id, file_ids)
             rest == remove_accessors(r.self, Tail(accessors_removed), order)
         IN [files |-> rest.files,
             removed |-> r.result.files_removed \o rest.removed]

\* c2c_sync_index_impl, the loop that queues the excess
RECURSIVE enqueue_removed(_, _)
enqueue_removed(index_sync_state, excess) ==
    IF excess = << >> THEN index_sync_state
    ELSE enqueue_removed(enqueue(index_sync_state, EventToSync("FileRemoved", Head(excess))),
                         Tail(excess))

\* faulty end of c2c_sync_index_impl: the excess is cut off and not queued
c2c_sync_index_excess_dropped(data, users, files, files_removed) ==
    [data |-> [data EXCEPT !.users = users, !.files = files],
     result |-> [kind |-> "Success",
                 files_removed |->
                     IF Len(files_removed) > MAX_EVENTS_TO_SYNC_PER_BATCH
                     THEN split_off(files_removed, MAX_EVENTS_TO_SYNC_PER_BATCH).kept
                     ELSE files_removed]]

\* c2c_sync_index_impl from line 37: the excess is queued and the rest returned
c2c_sync_index_respond(data, users, files, files_removed) ==
    IF Len(files_removed) > MAX_EVENTS_TO_SYNC_PER_BATCH
    THEN [data |-> [data EXCEPT
                       !.users = users, !.files = files,
                       !.index_sync_state =
                           enqueue_removed(@, split_off(files_removed,
                                                        MAX_EVENTS_TO_SYNC_PER_BATCH).excess)],
          result |-> [kind |-> "Success",
                      files_removed |-> split_off(files_removed,
                                                  MAX_EVENTS_TO_SYNC_PER_BATCH).kept]]
    ELSE [data |-> [data EXCEPT !.users = users, !.files = files],
          result |-> [kind |-> "Success", files_removed |-> files_removed]]

\* the loops of c2c_sync_index_impl after the one over users_removed
c2c_sync_index_accessors(data, args, order, by_user) ==
    LET by_accessor == remove_accessors(by_user.files, args.accessors_removed, order)
    IN c2c_sync_index_respond(data, by_user.users, by_accessor.files,
                              by_user.removed \o by_accessor.removed)

\* c2c_sync_index_impl; order is the order in which the sets of file ids are
\* iterated
c2c_sync_index_impl(data, args, order) ==
    c2c_sync_index_accessors(data, args, order,
        remove_users(add_users(data.users, args.users_added), data.files,
                     args.users_removed, order))

\* the bucket's Data: the Files of store and the rest in env
BucketData ==
    [index_canister_id |-> env.index_canister_id, users |-> env.users,
     files |-> store, index_sync_state |-> env.index_sync_state]

SyncIndexArgs ==
    [users_added : {<< >>, <<"u1", "u2">>},
     users_removed : {<< >>, <<"u1">>, <<"u1", "u2">>},
     accessors_removed : {<< >>, <<"a1", "a2">>}]

\* the calls users make: the chunks of the file <<1>> and of the file <<0, 1>>,
\* declared with its digest
SyncUploadArgs ==
    {args \in WellFormedArgs :
        LET content == IF args.total_size = 1 THEN <<1>> ELSE <<0, 1>>
        IN /\ args.hash = hash_bytes(content)
           /\ args.bytes = <<content[args.chunk_index + 1]>>}

\* upload_chunk: the caller is the uploader, a caller the index has not added
\* is turned away, and the FileAdded of a new upload is queued for the index
UploadChunkStep(args) ==
    /\ Len(env.index_sync_state.queue) < MaxQueued
    /\ \/ args.file_id \in DOMAIN store.pending_files
       \/ Cardinality(DOMAIN store.pending_files) < MaxPending
    /\ LET call == [op |-> "upload_chunk", file_id |-> args.file_id]
           r == put_chunk(store, args)
       IN IF args.uploaded_by \notin env.users
          THEN /\ result' = call @@ [kind |-> "UserNotFound"]
               /\ UNCHANGED <<store, env>>
          ELSE /\ Commit(call, r)
               /\ env' = IF result'.kind = "Success" /\ result'.file_added # None
                         THEN [env EXCEPT !.index_sync_state =
                                  enqueue(@, EventToSync("FileAdded", result'.file_added[1]))]
                         ELSE env

UploadChunk(args) == UploadChunkStep(args) /\ UNCHANGED index

\* the state c2c_sync_index leaves
CommitSync(call, r) ==
    /\ store' = r.data.files
    /\ env' = [env EXCEPT !.users = r.data.users,
                          !.index_sync_state = r.data.index_sync_state]
    /\ result' = call @@ r.result

\* faulty c2c_sync_index: no guard
C2cSyncIndexUnguarded(caller, args, order) ==
    /\ Len(env.index_sync_state.queue) < MaxQueued
    /\ LET call == [op |-> "c2c_sync_index", caller |-> caller, args |-> args]
           r == c2c_sync_index_impl(BucketData, args, order)
       IN CommitSync(call, r)

\* c2c_sync_index behind its guard: a call the guard rejects never runs
C2cSyncIndexStep(caller, args, order) ==
    /\ Len(env.index_sync_state.queue) < MaxQueued
    /\ LET call == [op |-> "c2c_sync_index", caller |-> caller, args |-> args]
           r == c2c_sync_index_impl(BucketData, args, order)
       IN IF ~caller_is_index_canister(BucketData, caller)
          THEN /\ result' = call @@ [kind |-> "Rejected"]
               /\ UNCHANGED <<store, env>>
          ELSE CommitSync(call, r)

C2cSyncIndex(caller, args, order) == C2cSyncIndexStep(caller, args, order) /\ UNCHANGED index

\* the heartbeat: with no batch on its way, the first events of the queue, at
\* most MAX_EVENTS_TO_SYNC_PER_BATCH, are taken and sent to the index
PushEventsStep ==
    /\ env.index_sync_state.in_flight = None
    /\ env.index_sync_state.queue # << >>
    /\ LET split == split_off(env.index_sync_state.queue,
                              Min(MAX_EVENTS_TO_SYNC_PER_BATCH,
                                  Len(env.index_sync_state.queue)))
       IN env' = [env EXCEPT !.index_sync_state =
                     [queue |-> split.excess, in_flight |-> Some(split.kept)]]
    /\ result' = [op |-> "heartbeat", kind |-> "Sent"]
    /\ UNCHANGED store

PushEvents == PushEventsStep /\ UNCHANGED index

\* the index answered the batch
PushSucceededStep ==
    /\ env.index_sync_state.in_flight # None
    /\ env' = [env EXCEPT !.index_sync_state.in_flight = None]
    /\ result' = [op |-> "heartbeat", kind |-> "Succeeded"]
    /\ UNCHANGED store

PushSucceeded == PushSucceededStep /\ UNCHANGED index

\* faulty re-queue: the batch of a failed call goes to the end of the queue
PushFailedRequeuedLast ==
    /\ env.index_sync_state.in_flight # None
    /\ env' = [env EXCEPT !.index_sync_state =
                  [queue |-> @.queue \o env.index_sync_state.in_flight[1],
                   in_flight |-> None]]
    /\ result' = [op |-> "heartbeat", kind |-> "Failed"]
    /\ UNCHANGED store

\* the call failed or timed out: the batch goes back to the head of the queue
PushFailedStep ==
    /\ env.index_sync_state.in_flight # None
    /\ env' = [env EXCEPT !.index_sync_state =
                  [queue |-> env.index_sync_state.in_flight[1] \o @.queue,
                   in_flight |-> None]]
    /\ result' = [op |-> "heartbeat", kind |-> "Failed"]
    /\ UNCHANGED store

PushFailed == PushFailedStep /\ UNCHANGED index

\* init: the caller that installs the bucket is its index
InitSync ==
    /\ store = FilesDefault
    /\ index = DataNew(TRUE)
    /\ result = NoResult
    /\ \E caller \in Principals :
          env = [installed_by |-> caller, index_canister_id |-> caller,
                 users |-> {}, index_sync_state |-> IndexSyncStateDefault]

NextSync ==
    \/ \E args \in SyncUploadArgs : UploadChunk(args)
    \/ \E caller \in Principals, args \in SyncIndexArgs, order \in Orders(FileIds) :
            C2cSyncIndex(caller, args, order)
    \/ PushEvents
    \/ PushSucceeded
    \/ PushFailed

SpecSync == InitSync /\ [][NextSync]_vars

-----------------------------------------------------------------------------
(* Properties of c2c_sync_index, under SpecSync *)

SeqToSet(seq) == {seq[i] : i \in 1..Len(seq)}

\* the events a step has added at the end of the queue for the index
NewlyQueued ==
    SubSeq(env'.index_sync_state.queue, Len(env.index_sync_state.queue) + 1,
           Len(env'.index_sync_state.queue))

\* the FileRemoved records of a c2c_sync_index step: those it returned, then
\* those it queued
Reported == result'.files_removed \o [i \in 1..Len(NewlyQueued) |-> NewlyQueued[i].event]

\* C24: after c2c_sync_index has processed UserRemoved(u), u is not among the
\* bucket's users and no completed file uploaded by u is left; every file the
\* call deleted is reported by one FileRemoved, and the reference counts,
\* blobs and bytes_used are those remove leaves.
C24_UserRemovedLeavesNoFile ==
    [][(result'.op = "c2c_sync_index" /\ result'.kind = "Success") =>
        /\ \A u \in SeqToSet(result'.args.users_removed) :
              /\ u \notin env'.users
              /\ \A f \in DOMAIN store'.files : store'.files[f].uploaded_by # u
        /\ \A f \in FileIds :
              Cardinality({i \in 1..Len(Reported) : Reported[i].file_id = f})
                 = IF f \in DOMAIN store.files /\ f \notin DOMAIN store'.files
                   THEN 1 ELSE 0
        /\ \A f \in DOMAIN store'.files : store'.files[f] = store.files[f]
        /\ \A h \in KnownHashes(store) :
              /\ CountOf(store', h) = Cardinality(FilesWithHash(store', h))
              /\ h \in DOMAIN store'.blobs <=> CountOf(store', h) >= 1
        /\ store'.bytes_used = SumOver(BlobLengths(store'), DOMAIN store'.blobs)]_vars

\* C25: c2c_sync_index runs only for the caller that installed the bucket, its
\* index; a call of any other principal is rejected and leaves the files, the
\* users and the queue as they were.
C25_OnlyTheIndexSyncs ==
    [][(result'.op = "c2c_sync_index") =>
        IF result'.caller = env.installed_by
        THEN result'.kind = "Success"
        ELSE /\ result'.kind = "Rejected"
             /\ store' = store
             /\ env' = env]_vars

\* a call that names users and accessors to remove, from a principal that is
\* not the index, is rejected by a bucket that holds users and files
C25_Witness ==
    /\ result.op = "c2c_sync_index"
    /\ result.kind = "Rejected"
    /\ result.caller # env.installed_by
    /\ result.args.users_removed # << >>
    /\ result.args.accessors_removed # << >>
    /\ env.users # {}
    /\ \E f \in DOMAIN store.files :
          store.files[f].uploaded_by = "u1" /\ store.files[f].accessors # {}

\* C30: the files_removed that c2c_sync_index returns has at most
\* MAX_EVENTS_TO_SYNC_PER_BATCH entries; the removed files beyond the bound,
\* and only those, are added at the end of the queue for the index in the
\* order of their removal, so each removed file is reported once, in the
\* response or through the queue.
C30_ExcessIsQueued ==
    [][(result'.op = "c2c_sync_index" /\ result'.kind = "Success") =>
        /\ Len(result'.files_removed) <= MAX_EVENTS_TO_SYNC_PER_BATCH
        /\ Len(env'.index_sync_state.queue) >= Len(env.index_sync_state.queue)
        /\ SubSeq(env'.index_sync_state.queue, 1, Len(env.index_sync_state.queue))
              = env.index_sync_state.queue
        /\ env'.index_sync_state.in_flight = env.index_sync_state.in_flight
        /\ \A i \in 1..Len(NewlyQueued) : NewlyQueued[i].kind = "FileRemoved"
        /\ NewlyQueued # << >> =>
              Len(result'.files_removed) = MAX_EVENTS_TO_SYNC_PER_BATCH
        /\ \A f \in FileIds :
              Cardinality({i \in 1..Len(Reported) : Reported[i].file_id = f})
                 = IF f \in DOMAIN store.files /\ f \notin DOMAIN store'.files
                   THEN 1 ELSE 0
        /\ Len(Reported) > 1 => \E order \in Orders(FileIds) :
              LET users == add_users(env.users, result'.args.users_added)
                  by_user == remove_users(users, store, result'.args.users_removed, order)
                  by_accessor == remove_accessors(by_user.files,
                                                  result'.args.accessors_removed, order)
              IN Reported = by_user.removed \o by_accessor.removed]_vars

\* a call removed more files than the bound: one is in the response, the
\* other went to the queue behind an event that was waiting there
C30_Witness ==
    /\ result.op = "c2c_sync_index"
    /\ result.kind = "Success"
    /\ Len(result.files_removed) = MAX_EVENTS_TO_SYNC_PER_BATCH
    /\ Len(env.index_sync_state.queue) >= 1
    /\ LET last == env.index_sync_state.queue[Len(env.index_sync_state.queue)]
       IN /\ last.kind = "FileRemoved"
          /\ last.event.file_id \notin DOMAIN store.files
          /\ \A i \in 1..Len(result.files_removed) :
                result.files_removed[i].file_id # last.event.file_id

-----------------------------------------------------------------------------
(* SpecPush: the stream of events from the bucket to the index.  The bucket *)
(* is the one of SpecSync, called by its index and by users that upload     *)
(* one-chunk files.  A batch that the heartbeat sent reaches the index, is  *)
(* applied there in the order of the batch and is answered, or the call     *)
(* fails, before the index got it or after the index applied it.  index is  *)
(* the two ends of the stream: enqueued, every event the bucket queued in   *)
(* the order of its enqueue calls, and applied, every event the index       *)
(* applied in the order it applied them.                                    *)

MaxEnqueued == 3

PushUploadArgs == {args \in SyncUploadArgs : args.total_size = 1 /\ args.accessors # {}}

\* the step adds the events it queued to the record of the enqueue calls
Logged == index' = [index EXCEPT !.enqueued = @ \o NewlyQueued]

\* the index applies the batch that is on its way, event by event
Delivered == index' = [index EXCEPT !.applied = @ \o env.index_sync_state.in_flight[1]]

PushUpload(args) ==
    /\ Len(index.enqueued) < MaxEnqueued
    /\ UploadChunkStep(args)
    /\ Logged

PushC2cSyncIndex(args, order) ==
    /\ Len(index.enqueued) < MaxEnqueued
    /\ C2cSyncIndexStep(env.index_canister_id, args, order)
    /\ Logged

PushAnswered == PushSucceededStep /\ Delivered

\* the call failed after the index applied the batch
PushAnswerLost ==
    /\ index.lost < MaxRedeliveries
    /\ PushFailedStep
    /\ index' = [index EXCEPT !.applied = @ \o env.index_sync_state.in_flight[1],
                              !.lost = @ + 1]

InitPush ==
    /\ store = FilesDefault
    /\ index = [enqueued |-> << >>, applied |-> << >>, lost |-> 0]
    /\ result = NoResult
    /\ env = [installed_by |-> "p1", index_canister_id |-> "p1",
              users |-> {}, index_sync_state |-> IndexSyncStateDefault]

NextPush ==
    \/ \E args \in PushUploadArgs : PushUpload(args)
    \/ \E args \in SyncIndexArgs, order \in Orders(FileIds) : PushC2cSyncIndex(args, order)
    \/ PushEvents
    \/ PushAnswered
    \/ PushFailed
    \/ PushAnswerLost

SpecPush == InitPush /\ [][NextPush]_vars

\* the batch that is on its way
InFlight(index_sync_state) ==
    IF index_sync_state.in_flight = None THEN << >> ELSE index_sync_state.in_flight[1]

\* the events of applied from the i-th on are events of enqueued in its order:
\* each one is the next of enqueued (position p), the first of a new batch or a
\* later one of the batch, or the first of the last batch again (position a),
\* and they get as far as position upto
RECURSIVE AppliedInOrder(_, _, _, _, _, _)
AppliedInOrder(applied, enqueued, i, a, p, upto) ==
    IF i > Len(applied) THEN p > upto
    ELSE \/ /\ p <= Len(enqueued)
            /\ applied[i] = enqueued[p]
            /\ \/ AppliedInOrder(applied, enqueued, i + 1, a, p + 1, upto)
               \/ AppliedInOrder(applied, enqueued, i + 1, p, p + 1, upto)
         \/ /\ a < p
            /\ applied[i] = enqueued[a]
            /\ AppliedInOrder(applied, enqueued, i + 1, a, a + 1, upto)

-----------------------------------------------------------------------------
(* SpecUpgrade: the bucket of SpecSync, upgraded.  pre_upgrade takes the    *)
(* state and writes the serialized Data and log messages to stable memory;  *)
(* the heap is gone with the old module, and post_upgrade reads stable      *)
(* memory back into a new state.  A struct is serialized as the tuple of    *)
(* its fields, a map as the sequence of its entries and a set as the        *)
(* sequence of its elements, in the order the collection iterates them.     *)
(* env.taken is the Data that pre_upgrade took, env.stable the stable       *)
(* memory from pre_upgrade until post_upgrade has read it.  The bucket is   *)
(* upgraded when no batch is on its way to the index.                       *)

MaxUpgrades == 1

\* the elements of a set in the order an iteration yields them
SetToSeq(set) == CHOOSE order \in Orders(set) : TRUE

\* a HashMap serialized: its entries, the values serialized already
serialize_map(map) ==
    LET keys == SetToSeq(DOMAIN map)
    IN [i \in 1..Len(keys) |-> <<keys[i], map[keys[i]]>>]

\* a HashMap deserialized: an entry for each key, the values still serialized
deserialize_map(entries) ==
    [key \in {entries[i][1] : i \in 1..Len(entries)} |->
        entries[CHOOSE i \in 1..Len(entries) : entries[i][1] = key][2]]

\* a number, a string, a byte buffer or a sequence of them
serialize_value(value) == value

serialize_file(file) ==
    <<file.uploaded_by, SetToSeq(file.accessors), file.hash, file.mime_type>>

deserialize_file(fields) ==
    [uploaded_by |-> fields[1], accessors |-> SeqToSet(fields[2]), hash |-> fields[3],
     mime_type |-> fields[4]]

serialize_pending_file(pending_file) ==
    <<pending_file.uploaded_by, pending_file.hash, pending_file.mime_type,
      SetToSeq(pending_file.accessors), pending_file.chunk_size, pending_file.total_size,
      SetToSeq(pending_file.remaining_chunks), pending_file.bytes>>

deserialize_pending_file(fields) ==
    [uploaded_by |-> fields[1], hash |-> fields[2], mime_type |-> fields[3],
     accessors |-> SeqToSet(fields[4]), chunk_size |-> fields[5], total_size |-> fields[6],
     remaining_chunks |-> SeqToSet(fields[7]), bytes |-> fields[8]]

serialize_files(files) ==
    <<serialize_map([f \in DOMAIN files.files |-> serialize_file(files.files[f])]),
      serialize_map([f \in DOMAIN files.pending_files |->
                        serialize_pending_file(files.pending_files[f])]),
      serialize_map([h \in DOMAIN files.reference_counts |->
                        serialize_value(files.reference_counts[h])]),
      serialize_map([a \in DOMAIN files.accessors_map |-> SetToSeq(files.accessors_map[a])]),
      serialize_map([h \in DOMAIN files.blobs |-> serialize_value(files.blobs[h])]),
      files.bytes_used>>

deserialize_files(fields) ==
    LET files == deserialize_map(fields[1])
        pending_files == deserialize_map(fields[2])
        reference_counts == deserialize_map(fields[3])
        accessors_map == deserialize_map(fields[4])
        blobs == deserialize_map(fields[5])
    IN [files |-> [f \in DOMAIN files |-> deserialize_file(files[f])],
        pending_files |-> [f \in DOMAIN pending_files |->
                              deserialize_pending_file(pending_files[f])],
        reference_counts |-> reference_counts,
        accessors_map |-> [a \in DOMAIN accessors_map |-> SeqToSet(accessors_map[a])],
        blobs |-> blobs,
        bytes_used |-> fields[6]]

serialize_data(data) ==
    <<data.index_canister_id, SetToSeq(data.users), serialize_files(data.files),
      <<data.index_sync_state.queue, data.index_sync_state.in_flight>>>>

deserialize_data(fields) ==
    [index_canister_id |-> fields[1], users |-> SeqToSet(fields[2]),
     files |-> deserialize_files(fields[3]),
     index_sync_state |-> [queue |-> fields[4][1], in_flight |-> fields[4][2]]]

\* serializer::serialize of the tuple pre_upgrade writes
serialize(stable_state) ==
    <<serialize_data(stable_state[1]), stable_state[2], stable_state[3]>>

\* serializer::deserialize of the tuple post_upgrade reads
deserialize(bytes) == <<deserialize_data(bytes[1]), bytes[2], bytes[3]>>

\* faulty pre_upgrade: the files of the state are not in the tuple
stable_state_without_files(data, log_messages, trace_messages) ==
    <<[data EXCEPT !.files = FilesDefault], log_messages, trace_messages>>

\* pre_upgrade, the tuple that is written
stable_state(data, log_messages, trace_messages) ==
    <<data, log_messages, trace_messages>>

Running == env.phase = "running"

PreUpgrade ==
    /\ Running
    /\ env.upgrades < MaxUpgrades
    /\ env.index_sync_state.in_flight = None
    /\ LET log_messages == Append(env.logs, "Pre-upgrade starting")
       IN env' = [env EXCEPT
                     !.phase = "upgrading",
                     !.upgrades = @ + 1,
                     !.taken = Some(BucketData),
                     !.stable = serialize(stable_state(BucketData, log_messages, env.traces)),
                     !.index_canister_id = None,
                     !.users = {},
                     !.index_sync_state = IndexSyncStateDefault,
                     !.logs = << >>,
                     !.traces = << >>]
    /\ store' = FilesDefault
    /\ result' = [op |-> "pre_upgrade", kind |-> "Unit"]
    /\ UNCHANGED index

PostUpgrade ==
    /\ env.phase = "upgrading"
    /\ LET stable_state_read == deserialize(env.stable)
           data == stable_state_read[1]
       IN /\ store' = data.files
          /\ env' = [env EXCEPT
                        !.phase = "running",
                        !.taken = None,
                        !.stable = << >>,
                        !.index_canister_id = data.index_canister_id,
                        !.users = data.users,
                        !.index_sync_state = data.index_sync_state,
                        !.logs = Append(stable_state_read[2], "Post-upgrade complete"),
                        !.traces = stable_state_read[3]]
    /\ result' = [op |-> "post_upgrade", kind |-> "Unit"]
    /\ UNCHANGED index

InitUpgrade ==
    /\ store = FilesDefault
    /\ index = DataNew(TRUE)
    /\ result = NoResult
    /\ env = [installed_by |-> "p1", index_canister_id |-> "p1", users |-> {},
              index_sync_state |-> IndexSyncStateDefault,
              phase |-> "running", upgrades |-> 0, taken |-> None, stable |-> << >>,
              logs |-> << >>, traces |-> << >>]

NextUpgrade ==
    \/ Running /\ \E args \in SyncUploadArgs : UploadChunk(args)
    \/ Running /\ \E args \in SyncIndexArgs, order \in Orders(FileIds) :
            C2cSyncIndex(env.index_canister_id, args, order)
    \/ Running /\ PushEvents
    \/ Running /\ PushSucceeded
    \/ Running /\ PushFailed
    \/ PreUpgrade
    \/ PostUpgrade

SpecUpgrade == InitUpgrade /\ [][NextUpgrade]_vars

-----------------------------------------------------------------------------
(* SpecChunks: put_chunk with chunks of any length.  Callers upload files   *)
(* of 1 to MaxChunksSize bytes, all bytes 1, in chunks of size 1 or 2, and  *)
(* send chunks of any index and of 1 to MaxChunksSize bytes, well-formed    *)
(* or not, declaring the digest of a file of the declared length.  result   *)
(* carries the arguments of the call.                                       *)

MaxChunksSize == 3

Ones(n) == [i \in 1..n |-> 1]

SizedArgs ==
    {[uploaded_by |-> "u1", file_id |-> file_id, hash |-> hash_bytes(Ones(total_size)),
      mime_type |-> "text/plain", accessors |-> {}, chunk_index |-> chunk_index,
      chunk_size |-> chunk_size, total_size |-> total_size, bytes |-> Ones(length)] :
        file_id \in FileIds, chunk_index \in 0..2, chunk_size \in 1..2,
        total_size \in 1..MaxChunksSize, length \in 1..MaxChunksSize}

PutChunkSized(args) ==
    /\ \/ args.file_id \in DOMAIN store.pending_files
       \/ Cardinality(DOMAIN store.pending_files) < MaxPending
    /\ Commit([op |-> "put_chunk", file_id |-> args.file_id, args |-> args],
              put_chunk(store, args))
    /\ UNCHANGED <<index, env>>

NextChunks ==
    \/ \E args \in SizedArgs : PutChunkSized(args)
    \/ \E file_id \in FileIds : Remove("u1", file_id)
    \/ \E file_id \in FileIds : RemovePendingFile(file_id)

SpecChunks == Init /\ [][NextChunks]_vars

\* the positions of a buffer that a step wrote: those whose byte changed
Written(before, after) == {i \in 1..Len(after) : i > Len(before) \/ after[i] # before[i]}

\* the buffer a put_chunk call finds: the one of the pending file of its file
\* id, or the zero-filled one of total_size bytes of the file it begins
BufferFor(self, args) ==
    IF args.file_id \in DOMAIN self.pending_files
    THEN self.pending_files[args.file_id].bytes
    ELSE [i \in 1..args.total_size |-> 0]

\* the buffer a put_chunk call leaves: the one of the pending file, or the
\* blob of the file it completed, or the one it found when the file is gone
BufferLeft(before, after, args) ==
    IF args.file_id \in DOMAIN after.pending_files
    THEN after.pending_files[args.file_id].bytes
    ELSE IF args.file_id \in DOMAIN after.files /\ args.file_id \notin DOMAIN before.files
    THEN after.blobs[after.files[args.file_id].hash]
    ELSE BufferFor(before, args)

\* the chunk_size and total_size a put_chunk call is absorbed with
SizesFor(self, args) ==
    IF args.file_id \in DOMAIN self.pending_files
    THEN self.pending_files[args.file_id]
    ELSE args

\* C31: no put_chunk call aborts on a write outside the buffer: the buffer of
\* a pending file is total_size bytes long from its creation on, and a call
\* that writes bytes has chunk_index * chunk_size + len(bytes) <= total_size
\* and writes only positions from chunk_index * chunk_size on, below that sum.
C31_WritesStayInBuffer ==
    [][(result'.op = "put_chunk") =>
        LET args == result'.args
            sizes == SizesFor(store, args)
            written == Written(BufferFor(store, args), BufferLeft(store, store', args))
        IN /\ result'.kind # "Trap"
           /\ \A f \in DOMAIN store'.pending_files :
                 Len(store'.pending_files[f].bytes) = store'.pending_files[f].total_size
           /\ Len(BufferLeft(store, store', args)) = sizes.total_size
           /\ written # {} =>
                 /\ args.chunk_index * sizes.chunk_size + Len(args.bytes) <= sizes.total_size
                 /\ \A i \in written :
                       /\ i > args.chunk_index * sizes.chunk_size
                       /\ i <= args.chunk_index * sizes.chunk_size + Len(args.bytes)]_vars

\* the last chunk of a file of 3 bytes in chunks of 2, one byte long, has been
\* written at the end of the buffer
C31_Witness ==
    /\ result.op = "put_chunk"
    /\ result.kind = "Success"
    /\ result.args.chunk_index = 1
    /\ result.args.chunk_size = 2
    /\ result.args.total_size = 3
    /\ Len(result.args.bytes) = 1
    /\ result.args.file_id \in DOMAIN store.pending_files
    /\ store.pending_files[result.args.file_id].bytes = <<0, 0, 1>>

-----------------------------------------------------------------------------
(* SpecMeta: put_chunk calls for one upload by callers that disagree on its *)
(* metadata.  Every call carries its own uploaded_by, hash, mime_type,      *)
(* accessors, chunk_size and total_size.  env records, for each file id,    *)
(* the arguments of the call that created its pending file or its file.     *)

\* the mime type a caller declares goes with the accessors it names
MetaMimeType(accessors) == IF accessors = {} THEN "text/plain" ELSE "image/png"

MetaArgs ==
    {[uploaded_by |-> uploaded_by, file_id |-> "f1", hash |-> hash_bytes(Ones(hashed)),
      mime_type |-> MetaMimeType(accessors), accessors |-> accessors,
      chunk_index |-> chunk_index, chunk_size |-> chunk_size,
      total_size |-> total_size, bytes |-> Ones(length)] :
        uploaded_by \in UserIds, hashed \in 1..2, accessors \in ArgAccessors,
        chunk_index \in 0..1, chunk_size \in 1..2, total_size \in 1..2, length \in 1..2}

\* the file ids that have a pending file or a file
Begun(self) == DOMAIN self.pending_files \cup DOMAIN self.files

PutChunkMeta(args) ==
    /\ Commit([op |-> "put_chunk", file_id |-> args.file_id, args |-> args],
              put_chunk(store, args))
    /\ env' = IF args.file_id \notin Begun(store) /\ args.file_id \in Begun(store')
              THEN MapPut(env, args.file_id, args)
              ELSE env
    /\ UNCHANGED index

InitMeta ==
    /\ store = FilesDefault
    /\ index = DataNew(TRUE)
    /\ result = NoResult
    /\ env = EmptyMap

NextMeta ==
    \/ \E args \in MetaArgs : PutChunkMeta(args)
    \/ \E uploaded_by \in UserIds, file_id \in FileIds : Remove(uploaded_by, file_id)
    \/ \E file_id \in FileIds : RemovePendingFile(file_id)

SpecMeta == InitMeta /\ [][NextMeta]_vars

\* the metadata of a pending file
PendingMetadata(pf) ==
    [uploaded_by |-> pf.uploaded_by, hash |-> pf.hash, mime_type |-> pf.mime_type,
     accessors |-> pf.accessors, chunk_size |-> pf.chunk_size, total_size |-> pf.total_size]

\* the metadata of a completed file
FileMetadata(file) ==
    [uploaded_by |-> file.uploaded_by, hash |-> file.hash, mime_type |-> file.mime_type,
     accessors |-> file.accessors]

\* C32: a put_chunk call for a file id that has a pending file leaves the six
\* metadata fields of the pending file as they were, whatever it carries, and
\* a file it completes has the uploader, hash, mime type and accessors of the
\* pending file; so the metadata of every pending file, and the uploader,
\* hash, mime type and accessors of every file, are those of the call that
\* created the pending file.
C32_MetadataFromFirstCall ==
    [][(result'.op = "put_chunk") =>
        LET file_id == result'.file_id IN
        /\ (file_id \in DOMAIN store.pending_files) =>
              LET before == PendingMetadata(store.pending_files[file_id]) IN
              /\ (file_id \in DOMAIN store'.pending_files) =>
                    PendingMetadata(store'.pending_files[file_id]) = before
              /\ (file_id \in DOMAIN store'.files) =>
                    FileMetadata(store'.files[file_id])
                        = [uploaded_by |-> before.uploaded_by, hash |-> before.hash,
                           mime_type |-> before.mime_type, accessors |-> before.accessors]
        /\ \A f \in DOMAIN store'.pending_files :
              PendingMetadata(store'.pending_files[f]) = PendingMetadata(env'[f])
        /\ \A f \in DOMAIN store'.files :
              FileMetadata(store'.files[f]) = FileMetadata(env'[f])]_vars

\* a file of two chunks begun by u1 without accessors was completed by a call
\* of u2 that names accessors and other sizes, and belongs to u1
C32_Witness ==
    /\ result.op = "put_chunk"
    /\ result.kind = "Success"
    /\ result.file_completed
    /\ result.args.uploaded_by = "u2"
    /\ result.args.accessors # {}
    /\ result.args.chunk_size = 2
    /\ result.args.total_size = 1
    /\ result.args.hash # store.files["f1"].hash
    /\ result.args.mime_type # store.files["f1"].mime_type
    /\ env["f1"].uploaded_by = "u1"
    /\ env["f1"].chunk_size = 1
    /\ env["f1"].total_size = 2
    /\ store.files["f1"].uploaded_by = "u1"
    /\ store.files["f1"].accessors = {}

-----------------------------------------------------------------------------
(* Properties of the index, under SpecRedelivery *)

\* C33: after every call of the index every user's bytes_used is at most the
\* user's byte_limit; an add_user call answered Success has added one user
\* with bytes_used = 0 and queued its UserAdded event, and one answered
\* UserAlreadyExists has left the users and the queue of events as they were.
C33_BytesUsedWithinLimit ==
    [][/\ \A user_id \in DOMAIN index'.users :
             ~u64_gt(index'.users[user_id].bytes_used, index'.users[user_id].byte_limit)
       /\ (result'.op = "add_user" /\ result'.kind = "UserAlreadyExists") =>
             /\ index'.users = index.users
             /\ index'.synced = index.synced
       /\ (result'.op = "add_user" /\ result'.kind = "Success") =>
             \E user_id \in DOMAIN index'.users \ DOMAIN index.users :
                /\ DOMAIN index'.users = DOMAIN index.users \cup {user_id}
                /\ index'.users[user_id].bytes_used = 0
                /\ \A other \in DOMAIN index.users : index'.users[other] = index.users[other]
                /\ index'.synced = Append(index.synced,
                                          [kind |-> "UserAdded", user_id |-> user_id])]_vars

====
